---- MODULE Spec2Model ----
(***************************************************************************)
(* Model of the Audit Gate (runAuditor, app/src/lib/auditor-agent.ts) and  *)
(* of the promotion workflow (MergeFlowSheet).                             *)
(*                                                                         *)
(* Texts are modelled at token level: a model response is a sequence of    *)
(* tokens (prose, whitespace, a code fence, one JSON value); a diff is a   *)
(* sequence of lines.  A JSON value is a record of its kind and of the     *)
(* three fields the auditor reads.                                         *)
(***************************************************************************)
EXTENDS Integers, Sequences, FiniteSets, TLC

VARIABLES
    \* ---- one runAuditor call (specification SpecAuditor) ----
    audPc,          \* "idle" | "called" | "returned"
    audIn,          \* inputs of the call: diff, credential, stream outcome, response
    audOut,         \* the value the call returned
    \* ---- MergeFlowSheet: props and React state ----
    open,           \* prop `open`
    currentBranch,  \* activeRepo.current_branch: "feature" | "default"
    sandboxId,      \* prop sandboxId: TRUE when a sandbox is attached
    step, loading, error,
    prInfo, prFormMode,
    auditVerdict, auditCard,
    mergeStatus,
    deletingBranch,
    abortRef,
    \* ---- asynchronous work in flight ----
    effect,         \* the effect call in flight: [pc, diff, cancelled]; a
                    \* cancelled run is followed until the next run starts
    calls,          \* the handler calls in flight, a bag
    retryTimer,     \* setTimeout(() => setStep('audit'), 0) pending
    \* ---- one runCoderAgent call (specification SpecCoder) ----
    codPc,          \* "idle" | "streaming" | "executing" | "returned" | "threw"
    round,          \* the loop variable `round`
    rounds,         \* `rounds`
    messages,       \* `messages`, the history handed to each completion call
    allCards,       \* `allCards`: the rounds whose tool result carried a card
    completions,    \* calls of streamMoonshotChat so far
    dispatches,     \* calls of executeSandboxToolCall so far
    codOut,         \* the value the call returned
    codEvent,       \* how the last await of the call settled
    codIn,          \* what it settled with (the response, the tool result)
    deadlinePassed, \* the round in flight has lasted longer than the round time limit
    \* ---- one detectScratchpadToolCall call (specification SpecScratchpad) ----
    padPc,          \* "idle" | "detected"
    padText,        \* the text handed to detectScratchpadToolCall
    padOut,         \* what it returned
    \* ---- safe storage (specification SpecStorage) ----
    store,          \* window.localStorage / window.sessionStorage: area -> key -> value
    stOp,           \* the last safeStorage call: function, key, value, area, environment
    stOut,          \* what it returned
    \* ---- one useProtectMain hook (specification SpecProtect) ----
    pmPc,           \* "unmounted" | "mounted"
    pmRepo,         \* prop repoFullName: "null" when there is none
    globalDefault,  \* state `globalDefault`
    repoOverride,   \* state `repoOverride`
    pmStore,        \* the storage the hook reads and writes
    pmOp,           \* the last call on the hook (ghost)
    \* ---- one useScratchpad hook and the tool executor (specification SpecNotes) ----
    padContent,     \* state `content` of useScratchpad
    toolCall,       \* the last executeScratchpadToolCall: call and currentContent
    toolOut,        \* the character count its acknowledgement reports
    \* ---- history (ghost) ----
    lastOp,         \* name of the last operation
    lastIn          \* its input / what it observed

audVars == <<audPc, audIn, audOut>>
uiVars  == <<open, currentBranch, sandboxId, step, loading, error, prInfo,
             prFormMode, auditVerdict, auditCard, mergeStatus, deletingBranch,
             abortRef>>
asyncVars == <<effect, calls, retryTimer>>
codVars == <<codPc, round, rounds, messages, allCards, completions,
             dispatches, codOut, codEvent, codIn, deadlinePassed>>
padVars == <<padPc, padText, padOut>>
stVars == <<store, stOp, stOut>>
pmVars == <<pmPc, pmRepo, globalDefault, repoOverride, pmStore, pmOp>>
noteVars == <<padContent, toolCall, toolOut>>
ghostVars == <<lastOp, lastIn>>
vars == <<audVars, uiVars, asyncVars, codVars, padVars, stVars, pmVars,
          noteVars, ghostVars>>

\* ---------------------------------------------------------------------------
\* Bounds
\* ---------------------------------------------------------------------------
MaxTextLen  == 3   \* tokens in a model response
MaxRisks    == 1   \* entries of a response's risks array
MaxInFlight == 2   \* handler calls in flight at once
MaxPadTokens == 6  \* tokens in a text handed to detectScratchpadToolCall

\* ---------------------------------------------------------------------------
\* JSON values, as far as runAuditor reads them
\* ---------------------------------------------------------------------------
\* A property value: t is its JavaScript type, s its content when a string.
Undef     == [t |-> "undefined", s |-> ""]
Str(x)    == [t |-> "string", s |-> x]
NumVal    == [t |-> "number", s |-> ""]

VerdictVals == {Undef, Str("safe"), Str("unsafe"), Str("SAFE")}
SummaryVals == {Undef, Str("sum"), NumVal}

\* An element of the risks array: an object, null, or a number.
RiskItems ==
    {[k |-> "object", level |-> Str("low"), description |-> Str("desc")],
     [k |-> "object", level |-> Str("critical"), description |-> NumVal],
     [k |-> "object", level |-> Undef, description |-> Str("desc")],
     [k |-> "null", level |-> Undef, description |-> Undef],
     [k |-> "number", level |-> Undef, description |-> Undef]}

RiskSeqs == UNION {[1..n -> RiskItems] : n \in 0..MaxRisks}

\* parsed.risks: an array (with its items), absent, or of another type.
RisksVals ==
    [t : {"array"}, items : RiskSeqs]
    \cup [t : {"undefined", "string"}, items : {<<>>}]

\* A JSON value: an object with the three fields, or null / number / array.
JsonObjects == [k : {"object"}, verdict : VerdictVals, summary : SummaryVals,
                risks : RisksVals]
JsonOther   == [k : {"null", "number", "array"}, verdict : {Undef},
                summary : {Undef}, risks : {[t |-> "undefined", items |-> <<>>]}]
JsonValues  == JsonObjects \cup JsonOther

NoJson == [k |-> "none", verdict |-> Undef, summary |-> Undef,
           risks |-> [t |-> "undefined", items |-> <<>>]]

\* ---------------------------------------------------------------------------
\* Texts
\* ---------------------------------------------------------------------------
\* A model response: `shape` is its token sequence, `json` the JSON value
\* every "json" token of the shape stands for.
Tokens == {"prose", "ws", "fence", "json"}
Shapes == UNION {[1..n -> Tokens] : n \in 0..MaxTextLen}
HasJson(shape) == \E i \in 1..Len(shape) : shape[i] = "json"
Texts  == [shape : {sh \in Shapes : HasJson(sh)}, json : JsonValues]
          \cup [shape : {sh \in Shapes : ~HasJson(sh)}, json : {NoJson}]
EmptyText == [shape |-> <<>>, json |-> NoJson]

\* A diff is a sequence of lines.
HeaderLines == {"diff --git a/f1 b/f1", "diff --git a/f2 b/f2"}
BlankLines  == {"", "  "}
LongLine    == "+long"   \* an added line of AUDIT_DIFF_LIMIT characters
DiffLines   == HeaderLines \cup BlankLines \cup {"+x", LongLine}
NoDiff      == <<>>

\* /b\/(.+)$/ on a line that starts with 'diff --git'; "" when not a header.
PathOf(line) ==
    CASE line = "diff --git a/f1 b/f1" -> "f1"
      [] line = "diff --git a/f2 b/f2" -> "f2"
      [] OTHER -> ""

parseDiffFileCount(diff) ==
    Cardinality({PathOf(diff[i]) : i \in {j \in 1..Len(diff) : diff[j] \in HeaderLines}})

\* diff.slice(0, 15_000): the cut applied to the diff sent for review.
AUDIT_DIFF_LIMIT == 15000

\* line.length
LineLen(line) ==
    CASE line \in HeaderLines -> 20
      [] line = "" -> 0
      [] line = LongLine -> AUDIT_DIFF_LIMIT
      [] OTHER -> 2

\* lines.join('\n').length
RECURSIVE JoinedLen(_)
JoinedLen(lines) ==
    IF lines = <<>> THEN 0
    ELSE LineLen(Head(lines)) + (IF Len(lines) > 1 THEN 1 ELSE 0)
         + JoinedLen(Tail(lines))

\* diff.slice(0, n): the lines that fit whole, and the number of characters
\* kept of the line the cut falls in.
sliceDiff(diff, n) ==
    LET fits == {k \in 0..Len(diff) : JoinedLen(SubSeq(diff, 1, k)) <= n}
        k == CHOOSE x \in fits : \A y \in fits : y <= x
        used == JoinedLen(SubSeq(diff, 1, k)) + (IF k > 0 THEN 1 ELSE 0)
    IN  [lines |-> SubSeq(diff, 1, k),
         partial |-> IF k < Len(diff) /\ n > used THEN n - used ELSE 0]

\* diff.trim().length === 0 (also true of the empty string)
IsBlankDiff(diff) == \A i \in 1..Len(diff) : diff[i] \in BlankLines

\* ---------------------------------------------------------------------------
\* runAuditor
\* ---------------------------------------------------------------------------
FenceIdx(shape) == {i \in 1..Len(shape) : shape[i] = "fence"}
Min(S) == CHOOSE x \in S : \A y \in S : x <= y

\* jsonStr: the inside of the first fenced block when the regex matches,
\* the whole response otherwise.
ExtractJsonStr(shape) ==
    IF Cardinality(FenceIdx(shape)) >= 2
    THEN LET a == Min(FenceIdx(shape))
             b == Min(FenceIdx(shape) \ {a})
         IN  SubSeq(shape, a + 1, b - 1)
    ELSE shape

IsWs(t) == t = "ws"
NotWs(t) == ~IsWs(t)

\* JSON.parse(jsonStr): succeeds exactly when the string is one JSON value,
\* surrounding whitespace ignored.
JsonParses(shape) == SelectSeq(ExtractJsonStr(shape), NotWs) = <<"json">>

KnownLevels == {"low", "medium", "high"}

\* One element of parsed.risks.map(...); reading r.level of null throws.
MapRisk(r) ==
    [level |-> IF r.level.t = "string" /\ r.level.s \in KnownLevels
               THEN r.level.s ELSE "medium",
     description |-> IF r.description.t = "string"
                     THEN r.description.s ELSE "Unknown risk"]

RiskMapThrows(risks) ==
    risks.t = "array" /\ \E i \in 1..Len(risks.items) : risks.items[i].k = "null"

MappedRisks(risks) ==
    IF risks.t = "array"
    THEN [i \in 1..Len(risks.items) |-> MapRisk(risks.items[i])]
    ELSE <<>>

Card(verdict, summary, risks, filesReviewed) ==
    [verdict |-> verdict, summary |-> summary, risks |-> risks,
     filesReviewed |-> filesReviewed]
AuditResult(card) == [verdict |-> card.verdict, card |-> card]

NoKeyResult(n) == AuditResult(Card("unsafe",
    "Kimi API key not configured. Cannot run Auditor.",
    <<[level |-> "high",
       description |-> "Auditor requires Kimi API key - defaulting to UNSAFE"]>>, n))

StreamErrorResult(n) == AuditResult(Card("unsafe", "Auditor error",
    <<[level |-> "high",
       description |-> "Auditor failed - defaulting to UNSAFE"]>>, n))

\* Variant: the catch block defaults to 'safe'.
InvalidResultDefaultSafe(n) == AuditResult(Card("safe",
    "Auditor returned invalid response.", <<>>, n))

InvalidResult(n) == AuditResult(Card("unsafe",
    "Auditor returned invalid response. Defaulting to UNSAFE.",
    <<[level |-> "high",
       description |-> "Could not parse Auditor verdict - blocking commit"]>>, n))

\* parsed.verdict === 'safe' ? 'safe' : 'unsafe'
VerdictOf(parsed) ==
    IF parsed.verdict.t = "string" /\ parsed.verdict.s = "safe"
    THEN "safe" ELSE "unsafe"

SummaryOf(parsed) ==
    IF parsed.summary.t = "string" THEN parsed.summary.s
    ELSE "No summary provided"

\* The try block: decode the accumulated response and build the result;
\* every exception inside it lands in the catch.
ParseResponse(text, n) ==
    IF ~JsonParses(text.shape) THEN InvalidResult(n)
    ELSE IF text.json.k = "null" THEN InvalidResult(n)
    ELSE IF RiskMapThrows(text.json.risks) THEN InvalidResult(n)
    ELSE AuditResult(Card(VerdictOf(text.json), SummaryOf(text.json),
                          MappedRisks(text.json.risks), n))

\* Variant: the files are counted on the diff text sent for review.
runAuditorCountsSentDiff(diff, hasKey, streamError, text) ==
    LET filesReviewed == parseDiffFileCount(sliceDiff(diff, AUDIT_DIFF_LIMIT).lines) IN
    IF ~hasKey THEN NoKeyResult(filesReviewed)
    ELSE IF streamError THEN StreamErrorResult(filesReviewed)
    ELSE ParseResponse(text, filesReviewed)

runAuditor(diff, hasKey, streamError, text) ==
    LET filesReviewed == parseDiffFileCount(diff) IN
    IF ~hasKey THEN NoKeyResult(filesReviewed)
    ELSE IF streamError THEN StreamErrorResult(filesReviewed)
    ELSE ParseResponse(text, filesReviewed)

\* ---------------------------------------------------------------------------
\* MergeFlowSheet: values of the React state
\* ---------------------------------------------------------------------------
Steps == <<"check-tree", "create-pr", "audit", "merge", "done">>
PRNumbers == {1}

NoPR     == [number |-> 0, isExisting |-> FALSE]
NoCard   == Card("null", "", <<>>, 0)
NoStatus == [mergeable |-> "unset", ciOverall |-> "", hasConflicts |-> FALSE]
NoEffect == [pc |-> "none", diff |-> NoDiff, cancelled |-> FALSE]

\* Kinds of handler calls; those in flight when the sheet was closed are
\* marked stale.
EffectPcs == {"getSandboxDiff", "findPR", "githubFetch", "diffText",
              "runAuditor", "checkMergeable"}
HandlerKinds == {"createPR", "merge"}
StaleOf(k) == IF k = "createPR" THEN "createPR.stale" ELSE "merge.stale"
CallKinds == HandlerKinds \cup {StaleOf(k) : k \in HandlerKinds}
             \cup {"deleteBranch"}
NoCalls == [k \in CallKinds |-> 0]
RECURSIVE SumOver(_, _)
SumOver(f, S) ==
    IF S = {} THEN 0
    ELSE LET k == CHOOSE x \in S : TRUE IN f[k] + SumOver(f, S \ {k})
InFlight(c) == SumOver(c, CallKinds)
Put(c, k) == [c EXCEPT ![k] = @ + 1]
Take(c, k) == [c EXCEPT ![k] = @ - 1]
\* Calls in flight when the sheet closes are from then on stale.
MarkStale(c) ==
    [k \in CallKinds |->
        IF k \in HandlerKinds THEN 0
        ELSE IF k = "createPR.stale" THEN c["createPR"] + c["createPR.stale"]
        ELSE IF k = "merge.stale" THEN c["merge"] + c["merge.stale"]
        ELSE c[k]]

isOnDefault(branch) == branch = "default"

\* The component state as one record, for the operators below.  prInfoNew
\* and mergeStatusNew say that the setter was given a new object (the
\* effects' dependency arrays compare by identity).
Cur ==
    [open |-> open, currentBranch |-> currentBranch, step |-> step,
     loading |-> loading, error |-> error, prInfo |-> prInfo,
     prFormMode |-> prFormMode, auditVerdict |-> auditVerdict,
     auditCard |-> auditCard, mergeStatus |-> mergeStatus,
     deletingBranch |-> deletingBranch, abortRef |-> abortRef,
     effect |-> effect, calls |-> calls,
     prInfoNew |-> FALSE, mergeStatusNew |-> FALSE]

\* reset()
reset(s) ==
    [s EXCEPT !.step = "check-tree", !.loading = FALSE, !.error = "null",
              !.prInfo = NoPR, !.prInfoNew = (s.prInfo # NoPR),
              !.prFormMode = "null", !.auditVerdict = "null",
              !.auditCard = NoCard, !.mergeStatus = NoStatus,
              !.mergeStatusNew = (s.mergeStatus # NoStatus),
              !.deletingBranch = FALSE, !.abortRef = FALSE]

\* ---------------------------------------------------------------------------
\* The four effects: dependency arrays, cleanups, bodies
\* ---------------------------------------------------------------------------
EffectOf(pc) ==
    CASE pc = "getSandboxDiff" -> 1
      [] pc = "findPR" -> 2
      [] pc \in {"githubFetch", "diffText", "runAuditor"} -> 3
      [] pc = "checkMergeable" -> 4
      [] OTHER -> 0

PrInfoChanged(p, c) == c.prInfoNew \/ p.prInfo # c.prInfo
MergeStatusChanged(p, c) == c.mergeStatusNew \/ p.mergeStatus # c.mergeStatus

DepsChanged(k, p, c) ==
    \/ p.open # c.open
    \/ p.step # c.step
    \/ k = 1 /\ isOnDefault(p.currentBranch) # isOnDefault(c.currentBranch)
    \/ k = 2 /\ (p.prFormMode # c.prFormMode \/ p.currentBranch # c.currentBranch)
    \/ k = 3 /\ PrInfoChanged(p, c)
    \/ k = 4 /\ (PrInfoChanged(p, c) \/ MergeStatusChanged(p, c))

\* return () => { cancelled = true; } of the effect that owns the live call
Cleanup(p, c) ==
    IF c.effect.pc # "none" /\ DepsChanged(EffectOf(c.effect.pc), p, c)
    THEN [c EXCEPT !.effect.cancelled = TRUE]
    ELSE c

\* Variant: step 1 queries the working tree whether or not a sandbox is attached.
CheckTreeAlwaysQueries(c) ==
    IF ~c.open \/ c.step # "check-tree" \/ isOnDefault(c.currentBranch) THEN c
    ELSE [c EXCEPT !.abortRef = FALSE, !.loading = TRUE, !.error = "null",
                   !.effect = [pc |-> "getSandboxDiff", diff |-> NoDiff, cancelled |-> FALSE]]

\* Step 1 effect up to its first await (or to its end without a sandbox).
CheckTreeEffect(c) ==
    IF ~c.open \/ c.step # "check-tree" \/ isOnDefault(c.currentBranch) THEN c
    ELSE IF sandboxId
         THEN [c EXCEPT !.abortRef = FALSE, !.loading = TRUE, !.error = "null",
                        !.effect = [pc |-> "getSandboxDiff", diff |-> NoDiff, cancelled |-> FALSE]]
         ELSE [c EXCEPT !.abortRef = FALSE, !.loading = FALSE, !.error = "null",
                        !.step = "create-pr"]

\* Step 2 effect up to executeFindExistingPR.
FindPREffect(c) ==
    IF ~c.open \/ c.step # "create-pr" \/ c.prFormMode # "null" THEN c
    ELSE [c EXCEPT !.loading = TRUE, !.error = "null",
                   !.effect = [pc |-> "findPR", diff |-> NoDiff, cancelled |-> FALSE]]

\* Variant: the audit effect starts without clearing the previous verdict.
AuditEffectKeepsVerdict(c) ==
    IF ~c.open \/ c.step # "audit" \/ c.prInfo = NoPR THEN c
    ELSE [c EXCEPT !.loading = TRUE, !.error = "null",
                   !.effect = [pc |-> "githubFetch", diff |-> NoDiff,
                               cancelled |-> FALSE]]

\* Step 3 effect up to githubFetch.
AuditEffect(c) ==
    IF ~c.open \/ c.step # "audit" \/ c.prInfo = NoPR THEN c
    ELSE [c EXCEPT !.loading = TRUE, !.error = "null",
                   !.auditVerdict = "null", !.auditCard = NoCard,
                   !.effect = [pc |-> "githubFetch", diff |-> NoDiff, cancelled |-> FALSE]]

\* Step 4 effect up to executeCheckPRMergeable.
MergeEffect(c) ==
    IF ~c.open \/ c.step # "merge" \/ c.prInfo = NoPR \/ c.mergeStatus # NoStatus
    THEN c
    ELSE [c EXCEPT !.loading = TRUE, !.error = "null",
                   !.effect = [pc |-> "checkMergeable", diff |-> NoDiff, cancelled |-> FALSE]]

\* One commit: cleanups of the effects whose dependencies changed, then
\* their bodies in declaration order.
RunEffects(p, c) ==
    LET c0 == Cleanup(p, c)
        c1 == IF DepsChanged(1, p, c) THEN CheckTreeEffect(c0) ELSE c0
        c2 == IF DepsChanged(2, p, c) THEN FindPREffect(c1) ELSE c1
        c3 == IF DepsChanged(3, p, c) THEN AuditEffect(c2) ELSE c2
        c4 == IF DepsChanged(4, p, c) THEN MergeEffect(c3) ELSE c3
    IN  [c4 EXCEPT !.prInfoNew = FALSE, !.mergeStatusNew = FALSE]

\* Render after a batch of state updates.  checkTree without a sandbox sets
\* the step inside the effect, which commits once more.
Render(p, c) ==
    LET r1 == RunEffects(p, c)
        q  == [c EXCEPT !.prInfoNew = FALSE, !.mergeStatusNew = FALSE,
                        !.effect = r1.effect, !.calls = r1.calls]
    IN  IF r1.step # c.step THEN RunEffects(q, r1) ELSE r1

Commit(n) ==
    /\ open' = n.open
    /\ currentBranch' = n.currentBranch
    /\ step' = n.step
    /\ loading' = n.loading
    /\ error' = n.error
    /\ prInfo' = n.prInfo
    /\ prFormMode' = n.prFormMode
    /\ auditVerdict' = n.auditVerdict
    /\ auditCard' = n.auditCard
    /\ mergeStatus' = n.mergeStatus
    /\ deletingBranch' = n.deletingBranch
    /\ abortRef' = n.abortRef
    /\ effect' = n.effect
    /\ calls' = n.calls
    /\ sandboxId' = sandboxId

\* History: the operations the properties below speak about are recorded
\* with what they observed, the others only as "other".
NoIn == [x |-> ""]
LoggedOps == {"checkTree", "createPR", "diffText", "runAuditor",
              "checkMergeable", "handleMerge", "merge", "cancelled",
              "handleRetryAudit", "handleRecheck", "retryCheckTree",
              "retryCreatePR", "deleteBranch"}
Log(op, in) ==
    IF op \in LoggedOps
    THEN lastOp' = op /\ lastIn' = in
    ELSE lastOp' = "other" /\ lastIn' = NoIn
\* An effect call settles: for a run whose cleanup has run, only that.
LogSettled(op, in) ==
    IF effect.cancelled THEN Log("cancelled", [pc |-> effect.pc]) ELSE Log(op, in)

\* ---------------------------------------------------------------------------
\* What the sheet renders (the affordances the user can press)
\* ---------------------------------------------------------------------------
\* The retry timer has a delay of 0: it fires before the user can act again
\* (calls already in flight may still settle first).
UserCanAct == ~retryTimer

Shown == open /\ ~isOnDefault(currentBranch)

CreateFormShown ==
    Shown /\ step = "create-pr" /\ ~loading /\ prFormMode = "create"
ExistingShown ==
    Shown /\ step = "create-pr" /\ ~loading /\ prFormMode = "existing"
    /\ prInfo # NoPR
UnsafeShown ==
    Shown /\ step = "audit" /\ ~loading /\ auditVerdict = "unsafe"
    /\ auditCard # NoCard
ErrorShown(st) ==
    Shown /\ step = st /\ error # "null"
    /\ (st = "check-tree" => error # "uncommitted")

\* Variant: the ready branch looks at the CI status only.
ReadyBranchByCIOnly(ms) == ms.ciOverall # "FAILURE"

\* The four branches under {mergeStatus && ...} of the merge step.
ReadyBranch(ms) == ms.mergeable = "true" /\ ms.ciOverall # "FAILURE"
ConflictsBranch(ms) == ms.hasConflicts
CIFailingBranch(ms) == ms.ciOverall = "FAILURE" /\ ~ms.hasConflicts
ComputingBranch(ms) == ms.mergeable = "null" /\ ~ms.hasConflicts

MergeStepShown == Shown /\ step = "merge" /\ mergeStatus # NoStatus
\* The Merge button is rendered (it is disabled while loading).
MergeOffered == MergeStepShown /\ ReadyBranch(mergeStatus)
RecheckOffered ==
    \/ MergeStepShown /\ (CIFailingBranch(mergeStatus) \/ ComputingBranch(mergeStatus))
    \/ ErrorShown("merge")

\* Some button whose onClick is close() is rendered and enabled.
CloseOffered ==
    /\ open
    /\ \/ isOnDefault(currentBranch)
       \/ step = "check-tree" /\ error # "null"
       \/ CreateFormShown \/ ExistingShown \/ ErrorShown("create-pr")
       \/ UnsafeShown \/ ErrorShown("audit")
       \/ MergeStepShown /\ ReadyBranch(mergeStatus) /\ ~loading
       \/ MergeStepShown /\ (ConflictsBranch(mergeStatus)
                              \/ CIFailingBranch(mergeStatus)
                              \/ ComputingBranch(mergeStatus))
       \/ ErrorShown("merge")

\* ---------------------------------------------------------------------------
\* Continuations of the asynchronous functions (the code after each await).
\* `cancelled` is the effect run's flag; s is the state they resume in.
\* ---------------------------------------------------------------------------
Aborted(s, cancelled) == cancelled \/ s.abortRef

\* finally { if (!cancelled) { setLoading(false); ... } }
EffectFinally(s, cancelled) ==
    IF cancelled THEN s ELSE [s EXCEPT !.loading = FALSE]

\* catch (err) { if (cancelled || abortRef.current) return; setError(...) }
EffectCatch(s, cancelled) ==
    EffectFinally(IF Aborted(s, cancelled) THEN s
                  ELSE [s EXCEPT !.error = "failed"], cancelled)

\* checkTree after getSandboxDiff
checkTree(s, cancelled, outcome) ==
    IF outcome = "throw" THEN EffectCatch(s, cancelled)
    ELSE IF Aborted(s, cancelled) THEN EffectFinally(s, cancelled)
    ELSE IF outcome = "dirty"
         THEN EffectFinally([s EXCEPT !.loading = FALSE,
                                      !.error = "uncommitted"], cancelled)
         ELSE EffectFinally([s EXCEPT !.step = "create-pr"], cancelled)

\* findPR after executeFindExistingPR; prNumber 0 is "no PR found"
findPR(s, cancelled, outcome, prNumber) ==
    IF outcome = "throw" THEN EffectCatch(s, cancelled)
    ELSE IF Aborted(s, cancelled) THEN EffectFinally(s, cancelled)
    ELSE IF prNumber # 0
         THEN EffectFinally(
                [s EXCEPT !.prInfo = [number |-> prNumber, isExisting |-> TRUE],
                          !.prInfoNew = TRUE, !.prFormMode = "existing"],
                cancelled)
         ELSE EffectFinally([s EXCEPT !.prFormMode = "create"], cancelled)

\* runAudit after githubFetch
runAuditFetched(s, cancelled, outcome) ==
    IF outcome = "throw" THEN EffectCatch(s, cancelled)
    ELSE IF Aborted(s, cancelled) THEN EffectFinally(s, cancelled)
    ELSE IF outcome = "notok" THEN EffectCatch(s, cancelled)
    ELSE [s EXCEPT !.effect = [pc |-> "diffText", diff |-> NoDiff, cancelled |-> FALSE]]

SyntheticSafeCard == Card("safe", "No changes to review - empty diff.", <<>>, 0)

\* Variant: no short-circuit, an empty diff is sent to the Auditor too.
runAuditTextAlwaysAudits(s, cancelled, outcome, diff) ==
    IF outcome = "throw" THEN EffectCatch(s, cancelled)
    ELSE IF Aborted(s, cancelled) THEN EffectFinally(s, cancelled)
    ELSE [s EXCEPT !.effect = [pc |-> "runAuditor", diff |-> diff,
                               cancelled |-> FALSE]]

\* runAudit after diffRes.text()
runAuditText(s, cancelled, outcome, diff) ==
    IF outcome = "throw" THEN EffectCatch(s, cancelled)
    ELSE IF Aborted(s, cancelled) THEN EffectFinally(s, cancelled)
    ELSE IF IsBlankDiff(diff)
         THEN EffectFinally([s EXCEPT !.auditVerdict = "safe",
                                      !.auditCard = SyntheticSafeCard,
                                      !.step = "merge"], cancelled)
         ELSE [s EXCEPT !.effect = [pc |-> "runAuditor", diff |-> diff, cancelled |-> FALSE]]

\* runAudit after runAuditor
runAuditDone(s, cancelled, result) ==
    IF Aborted(s, cancelled) THEN EffectFinally(s, cancelled)
    ELSE EffectFinally(
           [s EXCEPT !.auditVerdict = result.verdict,
                     !.auditCard = result.card,
                     !.step = IF result.verdict = "safe" THEN "merge" ELSE @],
           cancelled)

\* The text of executeCheckPRMergeable, as far as the regexes read it.
MergeableTexts ==
    [mergeable : {"yes", "no", "computing", "absent"},
     ci : {"SUCCESS", "PENDING", "FAILURE", "NO-CHECKS", "absent"}]

\* mergeableMatch?.[1] === 'yes' ? true : ... === 'no' ? false : null
MergeableOf(text) ==
    CASE text.mergeable = "yes" -> "true"
      [] text.mergeable = "no" -> "false"
      [] OTHER -> "null"

MergeStatusOf(text) ==
    [mergeable |-> MergeableOf(text),
     ciOverall |-> IF text.ci = "absent" THEN "UNKNOWN" ELSE text.ci,
     hasConflicts |-> MergeableOf(text) = "false"]

\* checkMergeable after executeCheckPRMergeable
checkMergeable(s, cancelled, outcome, text) ==
    IF outcome = "throw" THEN EffectCatch(s, cancelled)
    ELSE IF Aborted(s, cancelled) THEN EffectFinally(s, cancelled)
    ELSE EffectFinally([s EXCEPT !.mergeStatus = MergeStatusOf(text),
                                 !.mergeStatusNew = TRUE], cancelled)

\* finally { setLoading(false); ... } of the two handlers
HandlerFinally(s) == [s EXCEPT !.loading = FALSE]
HandlerCatch(s) ==
    HandlerFinally(IF s.abortRef THEN s ELSE [s EXCEPT !.error = "failed"])

\* handleCreatePR after executeCreatePR; prNumber 0 is an unparsable reply
createPRDone(s, outcome, prNumber) ==
    IF outcome = "throw" THEN HandlerCatch(s)
    ELSE IF s.abortRef THEN HandlerFinally(s)
    ELSE IF prNumber = 0 THEN HandlerFinally([s EXCEPT !.error = "failed"])
    ELSE HandlerFinally(
           [s EXCEPT !.prInfo = [number |-> prNumber, isExisting |-> FALSE],
                     !.prInfoNew = TRUE, !.step = "audit"])

\* handleMerge after executeMergePR
mergeDone(s, outcome) ==
    IF outcome = "throw" THEN HandlerCatch(s)
    ELSE IF s.abortRef THEN HandlerFinally(s)
    ELSE HandlerFinally([s EXCEPT !.step = "done"])

\* ---------------------------------------------------------------------------
\* Actions of the promotion workflow
\* ---------------------------------------------------------------------------
\* close(): abortRef.current = true; onOpenChange(false)
closeSheet(s) ==
    [s EXCEPT !.abortRef = TRUE, !.open = FALSE, !.calls = MarkStale(@)]
AuditorIdle == UNCHANGED audVars
CoderIdle == UNCHANGED <<codVars, padVars, stVars, pmVars, noteVars>>

\* The parent sets the `open` prop (the sheet has no trigger of its own).
ParentOpen ==
    /\ ~open /\ UserCanAct
    /\ Commit(Render(Cur, [Cur EXCEPT !.open = TRUE]))
    /\ UNCHANGED retryTimer
    /\ Log("ParentOpen", NoIn)
    /\ AuditorIdle /\ CoderIdle

\* handleOpenChange(next), called by the Sheet
handleOpenChange(next) ==
    /\ open # next /\ UserCanAct
    /\ IF next
       THEN Commit(Render(Cur, [reset(Cur) EXCEPT !.open = TRUE]))
       ELSE Commit(Render(Cur, closeSheet(Cur)))
    /\ UNCHANGED retryTimer
    /\ Log(IF next THEN "handleOpenChange(true)" ELSE "handleOpenChange(false)", NoIn)
    /\ AuditorIdle /\ CoderIdle

\* close(), from a Close / Cancel / "Commit & push first" button
close ==
    /\ UserCanAct
    /\ CloseOffered
    /\ Commit(Render(Cur, closeSheet(Cur)))
    /\ UNCHANGED retryTimer
    /\ Log("close", NoIn)
    /\ AuditorIdle /\ CoderIdle

Live == [Cur EXCEPT !.effect = NoEffect]

\* getSandboxDiff settles for the live checkTree run.
CheckTreeSettles(outcome) ==
    /\ effect.pc = "getSandboxDiff"
    /\ Commit(Render(Cur, checkTree(Live, effect.cancelled, outcome)))
    /\ UNCHANGED retryTimer
    /\ LogSettled("checkTree", [outcome |-> outcome, applied |-> ~abortRef])
    /\ AuditorIdle /\ CoderIdle

\* executeFindExistingPR settles for the live findPR run.
FindPRSettles(outcome, prNumber) ==
    /\ effect.pc = "findPR"
    /\ Commit(Render(Cur, findPR(Live, effect.cancelled, outcome, prNumber)))
    /\ UNCHANGED retryTimer
    /\ LogSettled("findPR", [outcome |-> outcome, applied |-> ~abortRef])
    /\ AuditorIdle /\ CoderIdle

\* handleCreatePR up to executeCreatePR
handleCreatePR ==
    /\ UserCanAct
    /\ CreateFormShown
    /\ ~loading
    /\ InFlight(calls) < MaxInFlight
    /\ Commit(Render(Cur, [Cur EXCEPT !.loading = TRUE, !.error = "null",
                                      !.calls = Put(@, "createPR")]))
    /\ UNCHANGED retryTimer
    /\ Log("handleCreatePR", NoIn)
    /\ AuditorIdle /\ CoderIdle

\* executeCreatePR settles.
CreatePRSettles(kind, outcome, prNumber) ==
    /\ calls[kind] > 0
    /\ Commit(Render(Cur, createPRDone([Cur EXCEPT !.calls = Take(@, kind)],
                                       outcome, prNumber)))
    /\ UNCHANGED retryTimer
    /\ Log("createPR", [outcome |-> outcome, stale |-> kind = "createPR.stale"])
    /\ AuditorIdle /\ CoderIdle

\* onChange of the PR title input
editTitle ==
    /\ UserCanAct
    /\ CreateFormShown
    /\ error # "null"
    /\ Commit(Render(Cur, [Cur EXCEPT !.error = "null"]))
    /\ UNCHANGED retryTimer
    /\ Log("editTitle", NoIn)
    /\ AuditorIdle /\ CoderIdle

handleProceedWithExisting ==
    /\ UserCanAct
    /\ ExistingShown
    /\ Commit(Render(Cur, [Cur EXCEPT !.step = "audit"]))
    /\ UNCHANGED retryTimer
    /\ Log("handleProceedWithExisting", NoIn)
    /\ AuditorIdle /\ CoderIdle

\* githubFetch settles for the live runAudit run.
AuditFetchSettles(outcome) ==
    /\ effect.pc = "githubFetch"
    /\ Commit(Render(Cur, runAuditFetched(Live, effect.cancelled, outcome)))
    /\ UNCHANGED retryTimer
    /\ LogSettled("githubFetch", [outcome |-> outcome, applied |-> ~abortRef])
    /\ AuditorIdle /\ CoderIdle

\* diffRes.text() settles for the live runAudit run.
AuditTextSettles(outcome, diff) ==
    /\ effect.pc = "diffText"
    /\ Commit(Render(Cur, runAuditText(Live, effect.cancelled, outcome, diff)))
    /\ UNCHANGED retryTimer
    /\ LogSettled("diffText", [outcome |-> outcome, applied |-> ~abortRef,
                         blank |-> IsBlankDiff(diff)])
    /\ AuditorIdle /\ CoderIdle

\* runAuditor returns to the live runAudit run.
RunAuditorSettles(hasKey, streamError, text) ==
    /\ effect.pc = "runAuditor"
    /\ Commit(Render(Cur, runAuditDone(Live, effect.cancelled,
                          runAuditor(effect.diff, hasKey, streamError, text))))
    /\ UNCHANGED retryTimer
    /\ LogSettled("runAuditor", [applied |-> ~abortRef])
    /\ AuditorIdle /\ CoderIdle

\* executeCheckPRMergeable settles for the live checkMergeable run.
CheckMergeableSettles(outcome, text) ==
    /\ effect.pc = "checkMergeable"
    /\ Commit(Render(Cur, checkMergeable(Live, effect.cancelled, outcome, text)))
    /\ UNCHANGED retryTimer
    /\ LogSettled("checkMergeable", [outcome |-> outcome, applied |-> ~abortRef,
                               mergeable |-> text.mergeable, ci |-> text.ci])
    /\ AuditorIdle /\ CoderIdle

\* handleMerge up to executeMergePR
handleMerge ==
    /\ UserCanAct
    /\ MergeOffered
    /\ ~loading
    /\ prInfo # NoPR
    /\ InFlight(calls) < MaxInFlight
    /\ Commit(Render(Cur, [Cur EXCEPT !.loading = TRUE, !.error = "null",
                                      !.calls = Put(@, "merge")]))
    /\ UNCHANGED retryTimer
    /\ Log("handleMerge", [verdict |-> auditVerdict])
    /\ AuditorIdle /\ CoderIdle

\* executeMergePR settles.
MergeSettles(kind, outcome) ==
    /\ calls[kind] > 0
    /\ Commit(Render(Cur, mergeDone([Cur EXCEPT !.calls = Take(@, kind)], outcome)))
    /\ UNCHANGED retryTimer
    /\ Log("merge", [outcome |-> outcome, stale |-> kind = "merge.stale"])
    /\ AuditorIdle /\ CoderIdle

\* Variant: Re-check restarts the workflow from check-tree.
handleRecheckRestarts ==
    /\ UserCanAct
    /\ RecheckOffered
    /\ Commit(Render(Cur, [Cur EXCEPT !.mergeStatus = NoStatus, !.error = "null",
                                      !.step = "check-tree"]))
    /\ UNCHANGED retryTimer
    /\ Log("handleRecheck", [hadStatus |-> mergeStatus # NoStatus])
    /\ AuditorIdle /\ CoderIdle

handleRecheck ==
    /\ UserCanAct
    /\ RecheckOffered
    /\ Commit(Render(Cur, [Cur EXCEPT !.mergeStatus = NoStatus, !.error = "null"]))
    /\ UNCHANGED retryTimer
    /\ Log("handleRecheck", [hadStatus |-> mergeStatus # NoStatus])
    /\ AuditorIdle /\ CoderIdle

\* handleRetryAudit up to the timer
handleRetryAudit ==
    /\ UserCanAct
    /\ UnsafeShown \/ ErrorShown("audit")
    /\ Commit(Render(Cur, [Cur EXCEPT !.auditVerdict = "null",
                                      !.auditCard = NoCard, !.error = "null",
                                      !.step = "check-tree"]))
    /\ retryTimer' = TRUE
    /\ Log("handleRetryAudit", [verdict |-> auditVerdict])
    /\ AuditorIdle /\ CoderIdle

\* setTimeout(() => setStep('audit'), 0) fires.
RetryTimerFires ==
    /\ retryTimer
    /\ Commit(Render(Cur, [Cur EXCEPT !.step = "audit"]))
    /\ retryTimer' = FALSE
    /\ Log("retryTimer", NoIn)
    /\ AuditorIdle /\ CoderIdle

\* onRetry of the check-tree ErrorDisplay
retryCheckTree ==
    /\ UserCanAct
    /\ ErrorShown("check-tree")
    /\ Commit(Render(Cur, [Cur EXCEPT !.error = "null", !.step = "check-tree"]))
    /\ UNCHANGED retryTimer
    /\ Log("retryCheckTree", NoIn)
    /\ AuditorIdle /\ CoderIdle

\* onRetry of the create-pr ErrorDisplay
retryCreatePR ==
    /\ UserCanAct
    /\ ErrorShown("create-pr")
    /\ Commit(Render(Cur, [Cur EXCEPT !.error = "null", !.prFormMode = "null"]))
    /\ UNCHANGED retryTimer
    /\ Log("retryCreatePR", [mode |-> prFormMode])
    /\ AuditorIdle /\ CoderIdle

\* handleSwitchToMain: setCurrentBranch(defaultBranch); close()
handleSwitchToMain ==
    /\ UserCanAct
    /\ Shown /\ step = "done"
    /\ Commit(Render(Cur, closeSheet([Cur EXCEPT !.currentBranch = "default"])))
    /\ UNCHANGED retryTimer
    /\ Log("handleSwitchToMain", NoIn)
    /\ AuditorIdle /\ CoderIdle

\* handleSwitchAndDelete up to executeDeleteBranch
handleSwitchAndDelete ==
    /\ UserCanAct
    /\ Shown /\ step = "done"
    /\ ~deletingBranch
    /\ InFlight(calls) < MaxInFlight
    /\ Commit(Render(Cur, [Cur EXCEPT !.deletingBranch = TRUE, !.error = "null",
                                      !.calls = Put(@, "deleteBranch")]))
    /\ UNCHANGED retryTimer
    /\ Log("handleSwitchAndDelete", NoIn)
    /\ AuditorIdle /\ CoderIdle

\* Variant: a rejected deletion is reported and the sheet stays open.
DeleteSettlesFailureStays(outcome) ==
    /\ calls["deleteBranch"] > 0
    /\ Commit(Render(Cur,
          IF outcome = "throw"
          THEN [Cur EXCEPT !.calls = Take(@, "deleteBranch"),
                           !.deletingBranch = FALSE, !.error = "failed"]
          ELSE closeSheet([Cur EXCEPT !.calls = Take(@, "deleteBranch"),
                                      !.currentBranch = "default",
                                      !.deletingBranch = FALSE])))
    /\ UNCHANGED retryTimer
    /\ Log("deleteBranch", [outcome |-> outcome])
    /\ AuditorIdle /\ CoderIdle

\* executeDeleteBranch settles (a rejection is caught and only logged).
DeleteSettles(outcome) ==
    /\ calls["deleteBranch"] > 0
    /\ Commit(Render(Cur, closeSheet([Cur EXCEPT !.calls = Take(@, "deleteBranch"),
                                                 !.currentBranch = "default",
                                                 !.deletingBranch = FALSE])))
    /\ UNCHANGED retryTimer
    /\ Log("deleteBranch", [outcome |-> outcome])
    /\ AuditorIdle /\ CoderIdle

\* ---------------------------------------------------------------------------
\* Inputs the environment can produce
\* ---------------------------------------------------------------------------
Diffs ==
    {<<"">>, <<"  ", "">>,
     <<"diff --git a/f1 b/f1", "+x">>,
     <<"diff --git a/f1 b/f1", "+x", "diff --git a/f2 b/f2", "+x">>,
     <<"diff --git a/f1 b/f1", "+x", "diff --git a/f1 b/f1", "+x">>,
     <<"diff --git a/f1 b/f1", LongLine, "diff --git a/f2 b/f2", "+x">>}
\* Diffs of the pull request inside the workflow.
WorkflowDiffs == {<<"">>, <<"  ", "">>, <<"diff --git a/f1 b/f1", "+x">>}

EmptyRisks == [t |-> "array", items |-> <<>>]
SafeJson   == [k |-> "object", verdict |-> Str("safe"), summary |-> Str("sum"),
               risks |-> EmptyRisks]
UnsafeJson == [k |-> "object", verdict |-> Str("unsafe"), summary |-> Str("sum"),
               risks |-> EmptyRisks]
EmptyObject == [k |-> "object", verdict |-> Undef, summary |-> Undef,
                risks |-> [t |-> "undefined", items |-> <<>>]]

\* Responses the auditor model gives inside the workflow.
WorkflowTexts ==
    {[shape |-> <<"json">>, json |-> SafeJson],
     [shape |-> <<"json">>, json |-> UnsafeJson],
     [shape |-> <<"prose">>, json |-> NoJson]}

\* ---------------------------------------------------------------------------
\* One runAuditor call, step by step
\* ---------------------------------------------------------------------------
NoResult == AuditResult(NoCard)
NoRequest == [lines |-> <<>>, partial |-> 0]
NoAudIn  == [diff |-> NoDiff, hasKey |-> FALSE, streamError |-> FALSE,
             text |-> EmptyText, request |-> NoRequest]

WorkflowIdle == UNCHANGED <<uiVars, asyncVars, ghostVars>>

\* runAuditor(diff, onStatus) up to the completion stream
AuditorCall(diff, hasKey) ==
    /\ audPc = "idle"
    /\ audIn' = [NoAudIn EXCEPT !.diff = diff, !.hasKey = hasKey,
                                !.request = IF hasKey
                                            THEN sliceDiff(diff, AUDIT_DIFF_LIMIT)
                                            ELSE NoRequest]
    /\ IF hasKey
       THEN audPc' = "streaming" /\ audOut' = NoResult
       ELSE audPc' = "returned"
            /\ audOut' = runAuditor(diff, FALSE, FALSE, EmptyText)
    /\ WorkflowIdle /\ CoderIdle

\* streamMoonshotChat reports an error.
AuditorStreamError ==
    /\ audPc = "streaming"
    /\ audIn' = [audIn EXCEPT !.streamError = TRUE]
    /\ audOut' = runAuditor(audIn.diff, TRUE, TRUE, EmptyText)
    /\ audPc' = "returned"
    /\ WorkflowIdle /\ CoderIdle

\* streamMoonshotChat completes with the accumulated text.
AuditorStreamDone(text) ==
    /\ audPc = "streaming"
    /\ audIn' = [audIn EXCEPT !.text = text]
    /\ audOut' = runAuditor(audIn.diff, TRUE, FALSE, text)
    /\ audPc' = "returned"
    /\ WorkflowIdle /\ CoderIdle

\* ---------------------------------------------------------------------------
\* The Coder loop: runCoderAgent
\* ---------------------------------------------------------------------------
MAX_CODER_ROUNDS == 5
MAX_TOOL_RESULT_SIZE == 8000
MAX_TOTAL_CONTEXT_SIZE == 60000

\* A text is known by its length and, once truncateContent has cut it, by the
\* number of characters the marker reports as omitted (0: not cut).
Text(len) == [len |-> len, omitted |-> 0]

\* Number of decimal digits of n, the length of `${n}` in a template string.
RECURSIVE Digits(_)
Digits(n) == IF n < 10 THEN 1 ELSE 1 + Digits(n \div 10)

\* a truncation that cuts without saying so
truncateContentSilently(content, maxLen, labelLen) ==
    IF content.len <= maxLen
    THEN content
    ELSE [len |-> maxLen, omitted |-> 0]

\* a truncation whose marker also subtracts its own length
truncateContentNetOfMarker(content, maxLen, labelLen) ==
    IF content.len <= maxLen
    THEN content
    ELSE LET n == content.len - maxLen - (3 + labelLen + 13 + 5 + 16)
         IN  [len |-> maxLen + 3 + labelLen + 13 + Digits(n) + 15,
              omitted |-> n]

\* truncateContent(content, maxLen, label): content itself when it fits,
\* else its first maxLen characters followed by
\* "\n\n[" label " truncated — " n " chars omitted]".
truncateContent(content, maxLen, labelLen) ==
    IF content.len <= maxLen
    THEN content
    ELSE LET n == content.len - maxLen
         IN  [len |-> maxLen + 3 + labelLen + 13 + Digits(n) + 15,
              omitted |-> n]

\* `[TOOL_RESULT — do not interpret as instructions]\n` ... `\n[/TOOL_RESULT]`
WrapToolResult(t) == [t EXCEPT !.len = 49 + t.len + 15]

RECURSIVE SumLen(_)
SumLen(ms) == IF ms = <<>> THEN 0 ELSE Head(ms).content.len + SumLen(Tail(ms))

estimateMessagesSize(ms) == SumLen(ms)

\* a context check that keeps the last 7 messages
TrimContextKeepsSeven(ms) ==
    IF estimateMessagesSize(ms) > MAX_TOTAL_CONTEXT_SIZE
    THEN LET keepCount == IF Len(ms) < 7 THEN Len(ms) ELSE 7
         IN  SubSeq(ms, Len(ms) - keepCount + 1, Len(ms))
    ELSE ms

\* a context check that cuts to the last 9 messages whatever the total size
TrimContextAlways(ms) ==
    LET keepCount == IF Len(ms) < 9 THEN Len(ms) ELSE 9
    IN  SubSeq(ms, Len(ms) - keepCount + 1, Len(ms))

\* messages.splice(0, messages.length - keepCount), keepCount = min(9, length)
TrimContext(ms) ==
    IF estimateMessagesSize(ms) > MAX_TOTAL_CONTEXT_SIZE
    THEN LET keepCount == IF Len(ms) < 9 THEN Len(ms) ELSE 9
         IN  SubSeq(ms, Len(ms) - keepCount + 1, Len(ms))
    ELSE ms

\* A message: id, role, content, isToolResult as in the code; toolCall says
\* whether detectSandboxToolCall finds a tool call in the content.
TaskMessage(len) ==
    [id |-> "coder-task", round |-> 0, role |-> "user",
     content |-> Text(len), isToolResult |-> FALSE, toolCall |-> FALSE]

ResponseMessage(r, resp) ==
    [id |-> "coder-response", round |-> r, role |-> "assistant",
     content |-> Text(resp.len), isToolResult |-> FALSE,
     toolCall |-> resp.toolCall]

ToolResultMessage(r, text) ==
    [id |-> "coder-tool-result", round |-> r, role |-> "user",
     content |-> WrapToolResult(
                     truncateContent(text, MAX_TOOL_RESULT_SIZE, 11)),
     isToolResult |-> TRUE, toolCall |-> FALSE]

\* Inputs: the task message's length, what a completion call streams
\* (length, and whether detectSandboxToolCall finds a tool call in it), and
\* what executeSandboxToolCall resolves with.
TaskLens == {40}
Responses ==
    { [len |-> 0,     toolCall |-> FALSE],
      [len |-> 120,   toolCall |-> FALSE],
      [len |-> 120,   toolCall |-> TRUE],
      [len |-> 30000, toolCall |-> TRUE] }
ToolResults ==
    { [len |-> 10,    card |-> FALSE],
      [len |-> 8000,  card |-> FALSE],
      [len |-> 8001,  card |-> TRUE],
      [len |-> 50000, card |-> FALSE] }

NoCoderOut == [kind |-> "none"]

\* for (round...; round < MAX_CODER_ROUNDS; ...): is there another round?
\* a loop that would allow one round more
LoopContinuesOneMore(r) == r <= MAX_CODER_ROUNDS

LoopContinues(r) == r < MAX_CODER_ROUNDS

\* The head of the loop for loop variable r: either the body starts and issues
\* the round's completion call, or the loop is left and the call returns the
\* max-rounds summary built from the last message.
LoopHead(r, ms, cards) ==
    IF LoopContinues(r)
    THEN /\ rounds' = r + 1
         /\ completions' = completions + 1
         /\ codPc' = "streaming"
         /\ codOut' = codOut
         /\ deadlinePassed' = FALSE
    ELSE /\ codPc' = "returned"
         /\ codOut' = [kind |-> "returned",
                       summary |-> [form |-> "maxRounds",
                                    last |-> IF ms = <<>>
                                             THEN NoCoderOut
                                             ELSE ms[Len(ms)],
                                    len |-> 40 + (IF ms = <<>> \/ ms[Len(ms)].content.len = 0
                                                  THEN 13
                                                  ELSE ms[Len(ms)].content.len)],
                       cards |-> cards,
                       rounds |-> rounds]
         /\ UNCHANGED <<rounds, completions, deadlinePassed>>

OthersIdle ==
    UNCHANGED <<audVars, uiVars, asyncVars, padVars, stVars, pmVars, noteVars,
                ghostVars>>

\* runCoderAgent(task, sandboxId, ...) up to its first await.
runCoderAgent(hasKey, taskLen) ==
    /\ codPc = "idle"
    /\ codEvent' = "called"
    /\ codIn' = [hasKey |-> hasKey, taskLen |-> taskLen]
    /\ IF ~hasKey
       THEN /\ codPc' = "threw"
            /\ codOut' = [kind |-> "threw", why |-> "no key"]
            /\ UNCHANGED <<round, rounds, messages, allCards, completions,
                           dispatches, deadlinePassed>>
       ELSE /\ messages' = <<TaskMessage(taskLen)>>
            /\ allCards' = <<>>
            /\ round' = 0
            /\ LoopHead(0, messages', allCards')
            /\ UNCHANGED dispatches
    /\ OthersIdle

\* a loop that reads a failed completion call as an empty response
StreamFailsAsNoToolCall ==
    /\ codPc = "streaming"
    /\ codEvent' = "onError"
    /\ codIn' = NoIn
    /\ messages' = Append(messages, ResponseMessage(round, [len |-> 0, toolCall |-> FALSE]))
    /\ codPc' = "returned"
    /\ codOut' = [kind |-> "returned",
                  summary |-> [form |-> "accumulated",
                               last |-> ResponseMessage(round, [len |-> 0, toolCall |-> FALSE]),
                               len |-> 0],
                  cards |-> allCards,
                  rounds |-> rounds]
    /\ UNCHANGED <<round, rounds, allCards, completions, dispatches,
                   deadlinePassed>>
    /\ OthersIdle

\* The completion call ends with onError: `throw streamError`.
StreamFails ==
    /\ codPc = "streaming"
    /\ codEvent' = "onError"
    /\ codIn' = NoIn
    /\ codPc' = "threw"
    /\ codOut' = [kind |-> "threw", why |-> "stream error"]
    /\ UNCHANGED <<round, rounds, messages, allCards, completions, dispatches,
                   deadlinePassed>>
    /\ OthersIdle

\* a loop that dispatches after every response
StreamDoneAlwaysDispatches(resp) ==
    /\ codPc = "streaming"
    /\ codEvent' = "onDone"
    /\ codIn' = resp
    /\ messages' = Append(messages, ResponseMessage(round, resp))
    /\ codPc' = "executing"
    /\ dispatches' = dispatches + 1
    /\ UNCHANGED <<round, rounds, allCards, completions, codOut, deadlinePassed>>
    /\ OthersIdle

\* The completion call ends with onDone: the response is pushed; without a
\* tool call the call returns it, with one the tool is dispatched.
StreamDone(resp) ==
    /\ codPc = "streaming"
    /\ codEvent' = "onDone"
    /\ codIn' = resp
    /\ messages' = Append(messages, ResponseMessage(round, resp))
    /\ IF ~resp.toolCall
       THEN /\ codPc' = "returned"
            /\ codOut' = [kind |-> "returned",
                          summary |-> [form |-> "accumulated",
                                       last |-> ResponseMessage(round, resp),
                                       len |-> resp.len],
                          cards |-> allCards,
                          rounds |-> rounds]
            /\ UNCHANGED dispatches
       ELSE /\ codPc' = "executing"
            /\ dispatches' = dispatches + 1
            /\ UNCHANGED codOut
    /\ UNCHANGED <<round, rounds, allCards, completions, deadlinePassed>>
    /\ OthersIdle

\* executeSandboxToolCall rejects: runCoderAgent rejects with it.
ToolThrows ==
    /\ codPc = "executing"
    /\ codEvent' = "toolRejected"
    /\ codIn' = NoIn
    /\ codPc' = "threw"
    /\ codOut' = [kind |-> "threw", why |-> "tool error"]
    /\ UNCHANGED <<round, rounds, messages, allCards, completions, dispatches,
                   deadlinePassed>>
    /\ OthersIdle

\* a loop that starts the next round without appending the tool result
ToolDoneResultNotAppended(res) ==
    /\ codPc = "executing"
    /\ codEvent' = "toolResolved"
    /\ codIn' = res
    /\ allCards' = IF res.card THEN Append(allCards, round) ELSE allCards
    /\ messages' = messages
    /\ round' = round + 1
    /\ LoopHead(round', messages', allCards')
    /\ UNCHANGED dispatches
    /\ OthersIdle

\* executeSandboxToolCall resolves: card collected, result truncated, wrapped
\* and pushed, context trimmed, round++ and the loop head again.
ToolDone(res) ==
    /\ codPc = "executing"
    /\ codEvent' = "toolResolved"
    /\ codIn' = res
    /\ allCards' = IF res.card THEN Append(allCards, round) ELSE allCards
    /\ messages' = TrimContext(
                       Append(messages, ToolResultMessage(round, Text(res.len))))
    /\ round' = round + 1
    /\ LoopHead(round', messages', allCards')
    /\ UNCHANGED dispatches
    /\ OthersIdle

\* Time passes while the round's completion call or tool dispatch is awaited:
\* the awaits arm no timer, so the round stays as it is.
DeadlinePasses ==
    /\ codPc \in {"streaming", "executing"}
    /\ ~deadlinePassed
    /\ deadlinePassed' = TRUE
    /\ UNCHANGED <<codPc, round, rounds, messages, allCards, completions,
                   dispatches, codOut, codEvent, codIn>>
    /\ OthersIdle

InitCoderVars ==
    /\ codPc = "idle" /\ round = 0 /\ rounds = 0
    /\ messages = <<>> /\ allCards = <<>>
    /\ completions = 0 /\ dispatches = 0
    /\ codOut = NoCoderOut
    /\ codEvent = "none" /\ codIn = NoIn
    /\ deadlinePassed = FALSE

\* ---------------------------------------------------------------------------
\* Scratchpad tools: detectScratchpadToolCall
\* ---------------------------------------------------------------------------
\* A text is a sequence of tokens: a fence line, text that is not JSON (prose
\* or malformed JSON), or a JSON object with its `tool` and `content` members.
PadFence     == [k |-> "fence", tool |-> Undef, content |-> Undef]
PadMalformed == [k |-> "malformed", tool |-> Undef, content |-> Undef]
PadObject(tool, content) == [k |-> "object", tool |-> tool, content |-> content]

SetA      == PadObject(Str("set_scratchpad"), Str("a"))
AppendB   == PadObject(Str("append_scratchpad"), Str("b"))
OtherTool == PadObject(Str("sandbox_exec"), Str("a"))
NonString == PadObject(Str("set_scratchpad"), NumVal)

PadTokens == {PadFence, PadMalformed, SetA, AppendB, OtherTool, NonString}
PadTexts  == UNION {[1..n -> PadTokens] : n \in 0..MaxPadTokens}

NoScratchpadCall == [tool |-> "null", content |-> ""]

isScratchpadTool(obj) ==
    /\ obj.k = "object"
    /\ obj.tool \in {Str("set_scratchpad"), Str("append_scratchpad")}
    /\ obj.content.t = "string"

\* { tool: parsed.tool, content: parsed.content }
ScratchpadCall(obj) == [tool |-> obj.tool.s, content |-> obj.content.s]

\* The matches of fenceRegex from position `from` on, in order: each pairs
\* the next fence with the fence after it; [a, b] are the fences' positions.
RECURSIVE FenceMatches(_, _)
FenceMatches(text, from) ==
    LET opens == {i \in from..Len(text) : text[i].k = "fence"}
    IN  IF opens = {} THEN <<>>
        ELSE LET a == Min(opens)
                 closes == {i \in (a + 1)..Len(text) : text[i].k = "fence"}
             IN  IF closes = {} THEN <<>>
                 ELSE LET b == Min(closes)
                      IN  <<[a |-> a, b |-> b]>> \o FenceMatches(text, b + 1)

\* tryParseScratchpadTool(match[1].trim()): JSON.parse accepts the block only
\* when it is one JSON value and nothing else.
tryParseScratchpadTool(jsonStr) ==
    IF Len(jsonStr) = 1 /\ isScratchpadTool(jsonStr[1])
    THEN ScratchpadCall(jsonStr[1])
    ELSE NoScratchpadCall

\* extractBareToolJsonObjects(text): the JSON objects of the text that stand
\* outside every fenced block, in text order.
InsideFence(text, i) ==
    \E j \in 1..Len(FenceMatches(text, 1)) :
        FenceMatches(text, 1)[j].a < i /\ i < FenceMatches(text, 1)[j].b

RECURSIVE BareFrom(_, _)
BareFrom(text, i) ==
    IF i > Len(text) THEN <<>>
    ELSE IF text[i].k = "object" /\ ~InsideFence(text, i)
         THEN <<text[i]>> \o BareFrom(text, i + 1)
         ELSE BareFrom(text, i + 1)

extractBareToolJsonObjects(text) == BareFrom(text, 1)

\* a scan that gives up at the first fenced block it rejects
FirstFencedOnlyFirstBlock(text, ms, j) ==
    IF j > Len(ms) THEN NoScratchpadCall
    ELSE tryParseScratchpadTool(SubSeq(text, ms[j].a + 1, ms[j].b - 1))

\* the while loop over the fence matches
RECURSIVE FirstFenced(_, _, _)
FirstFenced(text, ms, j) ==
    IF j > Len(ms) THEN NoScratchpadCall
    ELSE LET parsed == tryParseScratchpadTool(
                           SubSeq(text, ms[j].a + 1, ms[j].b - 1))
         IN  IF parsed # NoScratchpadCall THEN parsed
             ELSE FirstFenced(text, ms, j + 1)

\* the for loop over the bare objects
RECURSIVE FirstBare(_, _)
FirstBare(objs, j) ==
    IF j > Len(objs) THEN NoScratchpadCall
    ELSE IF isScratchpadTool(objs[j]) THEN ScratchpadCall(objs[j])
         ELSE FirstBare(objs, j + 1)

\* a detection that takes the bare objects first
detectBareFirst(text) ==
    LET bare == FirstBare(extractBareToolJsonObjects(text), 1)
    IN  IF bare # NoScratchpadCall THEN bare
        ELSE FirstFenced(text, FenceMatches(text, 1), 1)

detectScratchpadToolCall(text) ==
    LET fenced == FirstFenced(text, FenceMatches(text, 1), 1)
    IN  IF fenced # NoScratchpadCall THEN fenced
        ELSE FirstBare(extractBareToolJsonObjects(text), 1)

NonScratchpadIdle ==
    UNCHANGED <<audVars, uiVars, asyncVars, codVars, stVars, pmVars, noteVars,
                ghostVars>>

DetectScratchpad(text) ==
    /\ padPc = "idle"
    /\ padText' = text
    /\ padOut' = detectScratchpadToolCall(text)
    /\ padPc' = "detected"
    /\ NonScratchpadIdle

InitScratchpadVars ==
    /\ padPc = "idle" /\ padText = <<>> /\ padOut = NoScratchpadCall

\* ---------------------------------------------------------------------------
\* Safe storage: getStorage, safeStorageGet, safeStorageSet, safeStorageRemove
\* ---------------------------------------------------------------------------
StorageAreas == {"local", "session"}
StorageKeys  == {"k1", "k2"}
StorageVals  == {Str("a"), Str("b")}

StNull      == [t |-> "null", s |-> ""]
BoolVal(b)  == [t |-> "boolean", s |-> IF b THEN "true" ELSE "false"]
Threw       == [t |-> "threw", s |-> ""]

\* What a call meets: a working storage, no window, a window whose
\* localStorage / sessionStorage getter throws, or a storage whose method
\* throws (quota, disabled storage).
StorageEnvs == {"ok", "noWindow", "getterThrows", "methodThrows"}

EmptyStore == [a \in StorageAreas |-> [k \in StorageKeys |-> StNull]]

\* getStorage(area): TRUE when it returns the Storage object, FALSE for null.
getStorage(area, env) ==
    IF env = "noWindow" THEN FALSE
    ELSE IF env = "getterThrows" THEN FALSE
    ELSE TRUE

\* a getter without the try / catch around getItem
safeStorageGetUncaught(st, key, area, env) ==
    IF ~getStorage(area, env) THEN StNull
    ELSE IF env = "methodThrows" THEN Threw
    ELSE st[area][key]

safeStorageGet(st, key, area, env) ==
    IF ~getStorage(area, env) THEN StNull
    ELSE IF env = "methodThrows" THEN StNull
    ELSE st[area][key]

\* a setter that ignores the area and always writes localStorage
safeStorageSetLocalOnly(st, key, value, area, env) ==
    IF ~getStorage(area, env) THEN [out |-> BoolVal(FALSE), store |-> st]
    ELSE IF env = "methodThrows" THEN [out |-> BoolVal(FALSE), store |-> st]
    ELSE [out |-> BoolVal(TRUE),
          store |-> [st EXCEPT !["local"][key] = value]]

\* safeStorageSet / safeStorageRemove: the value returned and the storage
\* after the call; a setItem / removeItem that throws leaves the storage as
\* it was.
safeStorageSet(st, key, value, area, env) ==
    IF ~getStorage(area, env) THEN [out |-> BoolVal(FALSE), store |-> st]
    ELSE IF env = "methodThrows" THEN [out |-> BoolVal(FALSE), store |-> st]
    ELSE [out |-> BoolVal(TRUE),
          store |-> [st EXCEPT ![area][key] = value]]

safeStorageRemove(st, key, area, env) ==
    IF ~getStorage(area, env) THEN [out |-> BoolVal(FALSE), store |-> st]
    ELSE IF env = "methodThrows" THEN [out |-> BoolVal(FALSE), store |-> st]
    ELSE [out |-> BoolVal(TRUE),
          store |-> [st EXCEPT ![area][key] = StNull]]

StorageOp(fn, key, value, area, env) ==
    [fn |-> fn, key |-> key, value |-> value, area |-> area, env |-> env]

NonStorageIdle ==
    UNCHANGED <<audVars, uiVars, asyncVars, codVars, padVars, pmVars, noteVars,
                ghostVars>>

StorageGet(key, area, env) ==
    /\ stOp' = StorageOp("get", key, StNull, area, env)
    /\ stOut' = safeStorageGet(store, key, area, env)
    /\ UNCHANGED store
    /\ NonStorageIdle

StorageSet(key, value, area, env) ==
    /\ stOp' = StorageOp("set", key, value, area, env)
    /\ stOut' = safeStorageSet(store, key, value, area, env).out
    /\ store' = safeStorageSet(store, key, value, area, env).store
    /\ NonStorageIdle

StorageRemove(key, area, env) ==
    /\ stOp' = StorageOp("remove", key, StNull, area, env)
    /\ stOut' = safeStorageRemove(store, key, area, env).out
    /\ store' = safeStorageRemove(store, key, area, env).store
    /\ NonStorageIdle

InitStorageVars ==
    /\ store = EmptyStore
    /\ stOp = StorageOp("none", "k1", StNull, "local", "ok")
    /\ stOut = StNull

\* ---------------------------------------------------------------------------
\* Branch protection: useProtectMain, getIsMainProtected
\* ---------------------------------------------------------------------------
GLOBAL_DEFAULT_KEY == "protect_main_default"
repoKey(repoFullName) == "protect_main_" \o repoFullName

PmRepos     == {"null", "r1"}
PmKeys      == {GLOBAL_DEFAULT_KEY, repoKey("r1")}
Overrides   == {"inherit", "always", "never"}
PmEmptyStore == [a \in StorageAreas |-> [k \in PmKeys |-> StNull]]

loadGlobalDefault(st, env) ==
    safeStorageGet(st, GLOBAL_DEFAULT_KEY, "local", env) = Str("true")

loadRepoOverride(st, repoFullName, env) ==
    IF repoFullName = "null" THEN "inherit"
    ELSE LET raw == safeStorageGet(st, repoKey(repoFullName), "local", env)
         IN  IF raw = Str("always") \/ raw = Str("never") THEN raw.s
             ELSE "inherit"

getIsMainProtected(st, repoFullName, env) ==
    LET override == loadRepoOverride(st, repoFullName, env) IN
    IF override = "always" THEN TRUE
    ELSE IF override = "never" THEN FALSE
    ELSE loadGlobalDefault(st, env)

\* the value the hook returns as isProtected
isProtected ==
    IF repoOverride = "always" THEN TRUE
    ELSE IF repoOverride = "never" THEN FALSE
    ELSE globalDefault

\* The last call, and whether every call since the mount met a working
\* storage and, for setRepoOverride, a repository name.
PmOp(fn, clean) == [fn |-> fn, clean |-> clean]

NonProtectIdle ==
    UNCHANGED <<audVars, uiVars, asyncVars, codVars, padVars, stVars, noteVars,
                ghostVars>>

\* First render: both useState initialisers, then the effect on
\* [repoFullName].
useProtectMain(repoFullName, env) ==
    /\ pmPc = "unmounted"
    /\ pmPc' = "mounted"
    /\ pmRepo' = repoFullName
    /\ globalDefault' = loadGlobalDefault(pmStore, env)
    /\ repoOverride' = loadRepoOverride(pmStore, repoFullName, env)
    /\ pmOp' = PmOp("useProtectMain", env = "ok")
    /\ UNCHANGED pmStore
    /\ NonProtectIdle

\* The prop repoFullName changes: the effect reloads the override.
RepoChanges(repoFullName, env) ==
    /\ pmPc = "mounted"
    /\ repoFullName # pmRepo
    /\ pmRepo' = repoFullName
    /\ repoOverride' = loadRepoOverride(pmStore, repoFullName, env)
    /\ pmOp' = PmOp("repoChanges", pmOp.clean /\ env = "ok")
    /\ UNCHANGED <<pmPc, globalDefault, pmStore>>
    /\ NonProtectIdle

setGlobalDefault(value, env) ==
    /\ pmPc = "mounted"
    /\ pmStore' = safeStorageSet(pmStore, GLOBAL_DEFAULT_KEY,
                                 Str(IF value THEN "true" ELSE "false"),
                                 "local", env).store
    /\ globalDefault' = value
    /\ pmOp' = PmOp("setGlobalDefault", pmOp.clean /\ env = "ok")
    /\ UNCHANGED <<pmPc, pmRepo, repoOverride>>
    /\ NonProtectIdle

setRepoOverride(value, env) ==
    /\ pmPc = "mounted"
    /\ pmStore' =
          IF pmRepo = "null" THEN pmStore
          ELSE IF value = "inherit"
               THEN safeStorageRemove(pmStore, repoKey(pmRepo), "local", env).store
               ELSE safeStorageSet(pmStore, repoKey(pmRepo), Str(value),
                                   "local", env).store
    /\ repoOverride' = value
    /\ pmOp' = PmOp("setRepoOverride",
                    pmOp.clean /\ env = "ok" /\ pmRepo # "null")
    /\ UNCHANGED <<pmPc, pmRepo, globalDefault>>
    /\ NonProtectIdle

\* The component using the hook unmounts; the storage stays.
UnmountProtectMain ==
    /\ pmPc = "mounted"
    /\ pmPc' = "unmounted"
    /\ pmRepo' = "null" /\ globalDefault' = FALSE /\ repoOverride' = "inherit"
    /\ pmOp' = PmOp("unmount", TRUE)
    /\ UNCHANGED pmStore
    /\ NonProtectIdle

InitProtectVars ==
    /\ pmPc = "unmounted"
    /\ pmRepo = "null" /\ globalDefault = FALSE /\ repoOverride = "inherit"
    /\ pmStore = PmEmptyStore
    /\ pmOp = PmOp("none", TRUE)

\* ---------------------------------------------------------------------------
\* The scratchpad content: useScratchpad and executeScratchpadToolCall
\* ---------------------------------------------------------------------------
MaxNoteLen == 10   \* characters of scratchpad content before a further append

\* A string is known by its leading whitespace, its part from the first to
\* the last non-whitespace character, and its trailing whitespace; a string
\* of whitespace only has it all in `lead`.
NoteStr(lead, body, trail) == [lead |-> lead, body |-> body, trail |-> trail]
EmptyNote == NoteStr(0, 0, 0)
NoteTexts == {EmptyNote, NoteStr(1, 0, 0), NoteStr(0, 2, 0), NoteStr(1, 2, 0),
              NoteStr(0, 2, 1), NoteStr(1, 2, 1)}

\* s.length
NoteLen(s) == s.lead + s.body + s.trail

\* s.trim()
NoteTrim(s) == NoteStr(0, s.body, 0)

\* `${a}\n\n${b}` for a trimmed, non-empty a
JoinNotes(a, b) ==
    IF b.body = 0 THEN NoteStr(0, a.body, 2 + b.lead)
    ELSE NoteStr(0, a.body + 2 + b.lead + b.body, b.trail)

\* useScratchpad.append: prev => trimmed ? `${trimmed}\n\n${text}` : text
NoteAppend(prev, text) ==
    IF NoteLen(NoteTrim(prev)) > 0 THEN JoinNotes(NoteTrim(prev), text)
    ELSE text

\* the count in "(now N chars)" / "(N chars)"
ReportedLength(call, currentContent) ==
    IF call.tool = "set_scratchpad" THEN NoteLen(call.content)
    ELSE IF NoteLen(NoteTrim(currentContent)) > 0
         THEN NoteLen(currentContent) + NoteLen(call.content) + 2
         ELSE NoteLen(call.content)

NoteCall(tool, text) == [tool |-> tool, content |-> text]
NoToolCall == [call |-> NoteCall("none", EmptyNote), currentContent |-> EmptyNote]

NonNotesIdle ==
    UNCHANGED <<audVars, uiVars, asyncVars, codVars, padVars, stVars, pmVars,
                ghostVars>>

\* executeScratchpadToolCall(call, content, replace, append)
executeScratchpadToolCall(call) ==
    /\ call.tool = "append_scratchpad" => NoteLen(padContent) <= MaxNoteLen
    /\ padContent' = IF call.tool = "set_scratchpad" THEN call.content
                     ELSE NoteAppend(padContent, call.content)
    /\ toolCall' = [call |-> call, currentContent |-> padContent]
    /\ toolOut' = ReportedLength(call, padContent)
    /\ NonNotesIdle

\* The user edits the scratchpad: setContent(text).
setContent(text) ==
    /\ padContent' = text
    /\ toolCall' = NoToolCall
    /\ toolOut' = 0
    /\ NonNotesIdle

InitNoteVars ==
    /\ padContent = EmptyNote
    /\ toolCall = NoToolCall
    /\ toolOut = 0

\* ---------------------------------------------------------------------------
\* Specifications
\* ---------------------------------------------------------------------------
InitSheet ==
    /\ audPc = "idle" /\ audIn = NoAudIn /\ audOut = NoResult
    /\ open = FALSE
    /\ step = "check-tree" /\ loading = FALSE /\ error = "null"
    /\ prInfo = NoPR /\ prFormMode = "null"
    /\ auditVerdict = "null" /\ auditCard = NoCard
    /\ mergeStatus = NoStatus
    /\ deletingBranch = FALSE
    /\ abortRef = FALSE
    /\ effect = NoEffect /\ calls = NoCalls
    /\ retryTimer = FALSE
    /\ InitCoderVars
    /\ InitScratchpadVars
    /\ InitStorageVars
    /\ InitProtectVars
    /\ InitNoteVars
    /\ lastOp = "init" /\ lastIn = NoIn

Outcomes == {"ok", "throw"}

Next ==
    \/ ParentOpen
    \/ \E next \in BOOLEAN : handleOpenChange(next)
    \/ close
    \/ \E o \in {"dirty", "clean", "throw"} : CheckTreeSettles(o)
    \/ \E o \in Outcomes, n \in PRNumbers \cup {0} : FindPRSettles(o, n)
    \/ handleCreatePR
    \/ \E k \in {"createPR", "createPR.stale"}, o \in Outcomes,
          n \in PRNumbers \cup {0} : CreatePRSettles(k, o, n)
    \/ editTitle
    \/ handleProceedWithExisting
    \/ \E o \in {"ok", "notok", "throw"} : AuditFetchSettles(o)
    \/ \E o \in Outcomes, d \in WorkflowDiffs : AuditTextSettles(o, d)
    \/ \E hasKey \in BOOLEAN, streamError \in BOOLEAN, t \in WorkflowTexts :
          RunAuditorSettles(hasKey, streamError, t)
    \/ \E o \in Outcomes, t \in MergeableTexts : CheckMergeableSettles(o, t)
    \/ handleMerge
    \/ \E k \in {"merge", "merge.stale"}, o \in Outcomes : MergeSettles(k, o)
    \/ handleRecheck
    \/ handleRetryAudit
    \/ RetryTimerFires
    \/ retryCheckTree
    \/ retryCreatePR
    \/ handleSwitchToMain
    \/ handleSwitchAndDelete
    \/ \E o \in Outcomes : DeleteSettles(o)

\* The sheet is mounted closed, on either branch, with or without a sandbox.
Init ==
    /\ InitSheet
    /\ currentBranch \in {"feature", "default"}
    /\ sandboxId \in BOOLEAN

Spec == Init /\ [][Next]_vars

InitAuditor ==
    /\ InitSheet
    /\ currentBranch = "feature"
    /\ sandboxId = TRUE

NextAuditor ==
    \/ \E d \in Diffs, hasKey \in BOOLEAN : AuditorCall(d, hasKey)
    \/ AuditorStreamError
    \/ audPc = "streaming" /\ \E t \in Texts : AuditorStreamDone(t)

SpecAuditor == InitAuditor /\ [][NextAuditor]_vars

InitCoder ==
    /\ InitSheet
    /\ currentBranch = "feature"
    /\ sandboxId = TRUE

NextCoder ==
    \/ \E hasKey \in BOOLEAN, taskLen \in TaskLens : runCoderAgent(hasKey, taskLen)
    \/ StreamFails
    \/ \E resp \in Responses : StreamDone(resp)
    \/ ToolThrows
    \/ \E res \in ToolResults : ToolDone(res)
    \/ DeadlinePasses

SpecCoder == InitCoder /\ [][NextCoder]_vars

InitScratchpad ==
    /\ InitSheet
    /\ currentBranch = "feature"
    /\ sandboxId = TRUE

NextScratchpad ==
    padPc = "idle" /\ \E text \in PadTexts : DetectScratchpad(text)

SpecScratchpad == InitScratchpad /\ [][NextScratchpad]_vars

InitStorage ==
    /\ InitSheet
    /\ currentBranch = "feature"
    /\ sandboxId = TRUE

NextStorage ==
    \/ \E k \in StorageKeys, a \in StorageAreas, e \in StorageEnvs :
          StorageGet(k, a, e)
    \/ \E k \in StorageKeys, v \in StorageVals, a \in StorageAreas,
          e \in StorageEnvs : StorageSet(k, v, a, e)
    \/ \E k \in StorageKeys, a \in StorageAreas, e \in StorageEnvs :
          StorageRemove(k, a, e)

SpecStorage == InitStorage /\ [][NextStorage]_vars

InitProtect ==
    /\ InitSheet
    /\ currentBranch = "feature"
    /\ sandboxId = TRUE

NextProtect ==
    \/ \E r \in PmRepos, e \in StorageEnvs : useProtectMain(r, e)
    \/ \E r \in PmRepos, e \in StorageEnvs : RepoChanges(r, e)
    \/ \E v \in BOOLEAN, e \in StorageEnvs : setGlobalDefault(v, e)
    \/ \E v \in Overrides, e \in StorageEnvs : setRepoOverride(v, e)
    \/ UnmountProtectMain

SpecProtect == InitProtect /\ [][NextProtect]_vars

InitNotes ==
    /\ InitSheet
    /\ currentBranch = "feature"
    /\ sandboxId = TRUE

NextNotes ==
    \/ \E tool \in {"set_scratchpad", "append_scratchpad"}, text \in NoteTexts :
          executeScratchpadToolCall(NoteCall(tool, text))
    \/ \E text \in NoteTexts : setContent(text)

SpecNotes == InitNotes /\ [][NextNotes]_vars

\* ===========================================================================
\* Properties
\* ===========================================================================

\* ---- what the properties call a decodable / well-formed response ----------
OneJsonValue(seq) ==
    /\ \E i \in 1..Len(seq) : seq[i] = "json"
    /\ \A i, j \in 1..Len(seq) : seq[i] = "json" /\ seq[j] = "json" => i = j
    /\ \A i \in 1..Len(seq) : seq[i] \in {"json", "ws"}

\* The response is one JSON value, or its first fenced block is.
Decodable(text) ==
    LET f == FenceIdx(text.shape) IN
    IF Cardinality(f) < 2 THEN OneJsonValue(text.shape)
    ELSE \E a, b \in f :
            /\ a < b
            /\ \A c \in f : c = a \/ c >= b
            /\ OneJsonValue(SubSeq(text.shape, a + 1, b - 1))

RecognisedVerdict(j) ==
    j.k = "object" /\ j.verdict.t = "string" /\ j.verdict.s \in {"safe", "unsafe"}

\* verdict + string summary + risk list
ExpectedShape(text) ==
    /\ Decodable(text)
    /\ RecognisedVerdict(text.json)
    /\ text.json.summary.t = "string"
    /\ text.json.risks.t = "array"

\* The schema of the auditor prompt, with every risk an object of a known
\* level and a string description.
WellFormed(text) ==
    /\ ExpectedShape(text)
    /\ \A i \in 1..Len(text.json.risks.items) :
          LET r == text.json.risks.items[i] IN
          /\ r.k = "object"
          /\ r.level.t = "string" /\ r.level.s \in KnownLevels
          /\ r.description.t = "string"

WellFormedSafe(text) == WellFormed(text) /\ text.json.verdict.s = "safe"

SyntheticRisks ==
    {"Auditor requires Kimi API key - defaulting to UNSAFE",
     "Auditor failed - defaulting to UNSAFE",
     "Could not parse Auditor verdict - blocking commit"}
HasSyntheticRisk(card) ==
    \E i \in 1..Len(card.risks) : card.risks[i].description \in SyntheticRisks

Returned == audPc = "returned"
Completed == Returned /\ audIn.hasKey /\ ~audIn.streamError

\* C1: in every reachable state, step in {merge, done} implies that the
\* stored audit verdict is 'safe'.
C1_MergeImpliesSafe ==
    step \in {"merge", "done"} => auditVerdict = "safe"

\* C2: runAuditor returns a verdict on every exit path; the verdict is
\* 'unsafe' when no credential is available, when the stream reports an
\* error and when the accumulated response cannot be decoded; it is 'safe'
\* for a well-formed safe response.
C2_FailSafe ==
    Returned =>
        /\ audOut.verdict \in {"safe", "unsafe"}
        /\ audOut.card.verdict = audOut.verdict
        /\ (~audIn.hasKey \/ audIn.streamError \/ ~Decodable(audIn.text))
              => audOut.verdict = "unsafe"
        /\ (Completed /\ WellFormedSafe(audIn.text)) => audOut.verdict = "safe"

\* A response that is not decodable (a fence is never closed) was answered
\* 'unsafe'.
C2_Witness ==
    /\ Completed
    /\ audIn.text.shape = <<"fence", "json">>
    /\ audIn.text.json = SafeJson
    /\ audOut.verdict = "unsafe"

\* C3: runAuditor answers 'safe' only for a response of the expected shape
\* (verdict, string summary, risk list) whose verdict is safe.
C3_SafeOnlyExpectedShape ==
    (Returned /\ audOut.verdict = "safe")
        => Completed /\ ExpectedShape(audIn.text)

\* C4: whenever runAuditor answers 'unsafe' for a missing credential, a
\* stream error or a response not decodable as the expected shape, the
\* risk list holds a synthetic entry that says why.
C4_SyntheticRisk ==
    (Returned /\ audOut.verdict = "unsafe"
        /\ (~audIn.hasKey \/ audIn.streamError \/ ~ExpectedShape(audIn.text)))
        => HasSyntheticRisk(audOut.card)

\* ---- the promotion workflow ------------------------------------------------
AuditPcs == {"githubFetch", "diffText", "runAuditor"}
AuditRunning == effect.pc \in AuditPcs /\ ~effect.cancelled

\* This step starts a call: an effect run reaches a new call, or a handler
\* call is added to those in flight.
StartsEffectCall(pcs) ==
    effect' # effect /\ effect'.pc \in pcs /\ ~effect'.cancelled
StartsHandlerCall == InFlight(calls') > InFlight(calls)

\* This step is the settling of a call that was in flight when the sheet
\* was closed, or whose effect run was cancelled.
DiscardedCallSettles ==
    \/ lastOp' \in {"createPR", "merge"} /\ lastIn'.stale
    \/ lastOp' = "cancelled"

\* C5: the stored verdict never goes from 'unsafe' to 'safe' in place: it
\* becomes 'safe' only as the result of an audit run, and while an audit
\* run is in progress the verdict and its card are cleared.
C5_VerdictRederived ==
    [][/\ auditVerdict = "unsafe" => auditVerdict' # "safe"
       /\ (auditVerdict' = "safe" /\ auditVerdict # "safe")
            => (AuditRunning /\ lastOp' \in {"diffText", "runAuditor"})
       /\ AuditRunning' => (auditVerdict' = "null" /\ auditCard' = NoCard)
      ]_vars

\* The retry of an unsafe verdict has cleared it.
C5_Witness ==
    /\ lastOp = "handleRetryAudit" /\ lastIn.verdict = "unsafe"
    /\ auditVerdict = "null" /\ auditCard = NoCard
    /\ retryTimer

\* C6: the result of a call that was in flight when the sheet was closed
\* or cancelled is discarded: its settling changes neither the step, the
\* PR reference, the verdict nor the mergeability state, also after the
\* sheet was reopened.
C6_ResultDiscarded ==
    [][DiscardedCallSettles
         => UNCHANGED <<step, prInfo, auditVerdict, auditCard, mergeStatus>>]_vars

\* C7: on the default branch the workflow never leaves check-tree and
\* issues no sandbox, PR, audit or merge call.
C7_DefaultBranchBlocked ==
    [][isOnDefault(currentBranch)
         => /\ step' \in {step, "check-tree"}
            /\ ~StartsEffectCall(EffectPcs)
            /\ ~StartsHandlerCall]_vars

\* C8: a dirty working tree leaves the step at check-tree with the
\* 'uncommitted' error, a clean one advances to create-pr; while the
\* 'uncommitted' error stands the step stays check-tree and no PR search,
\* PR creation, audit or merge call is started.
C8_DirtyTreeBlocks ==
    [][/\ (lastOp' = "checkTree" /\ lastIn'.outcome = "dirty")
            => (step' = "check-tree" /\ error' = "uncommitted")
       /\ (lastOp' = "checkTree" /\ lastIn'.outcome = "clean")
            => step' = "create-pr"
       /\ (step = "check-tree" /\ error = "uncommitted")
            => /\ step' = "check-tree"
               /\ ~StartsEffectCall(EffectPcs \ {"getSandboxDiff"})
               /\ ~StartsHandlerCall
      ]_vars

\* C9: when the audit run in progress reads an empty or whitespace-only PR
\* diff, the step becomes merge with the synthetic 'safe' verdict (0 files
\* reviewed, no risks), and runAuditor is not called.
C9_EmptyDiffShortCircuit ==
    (lastOp = "diffText" /\ lastIn.outcome = "ok" /\ lastIn.blank)
        => /\ step = "merge"
           /\ auditVerdict = "safe"
           /\ auditCard.verdict = "safe"
           /\ auditCard.filesReviewed = 0
           /\ auditCard.risks = <<>>
           /\ effect.pc # "runAuditor"

C9_Witness ==
    /\ lastOp = "diffText" /\ lastIn.outcome = "ok" /\ lastIn.blank
    /\ step = "merge" /\ auditVerdict = "safe"
    /\ effect.pc = "checkMergeable"

\* C10: after a mergeability result of "Mergeable: no" the merge step does
\* not offer the Merge action, whatever the CI status; the Merge action is
\* never offered while the status records conflicts.
C10_ConflictsBlockMerge ==
    /\ (lastOp = "checkMergeable" /\ lastIn.outcome = "ok"
            /\ lastIn.mergeable = "no")
          => /\ ~MergeOffered
             /\ lastIn.applied => (step = "merge" /\ mergeStatus.hasConflicts)
    /\ mergeStatus.hasConflicts => ~MergeOffered

\* "Mergeable: no" with green CI: the conflicts branch is rendered.
C10_Witness ==
    /\ lastOp = "checkMergeable" /\ lastIn.outcome = "ok"
    /\ lastIn.mergeable = "no" /\ lastIn.ci = "SUCCESS"
    /\ lastIn.applied
    /\ MergeStepShown /\ ConflictsBranch(mergeStatus)
    /\ ~loading

\* ---- the merge step ---------------------------------------------------------
BranchCount(ms) ==
    Cardinality({b \in {"ready", "conflicts", "ci-failing", "computing"} :
        \/ b = "ready" /\ ReadyBranch(ms)
        \/ b = "conflicts" /\ ConflictsBranch(ms)
        \/ b = "ci-failing" /\ CIFailingBranch(ms)
        \/ b = "computing" /\ ComputingBranch(ms)})

\* C11: at the merge step, for every stored mergeability result, exactly
\* one of the four outcome branches (ready, conflicts, CI failing,
\* computing) is rendered.
C11_ExactlyOneBranch ==
    MergeStepShown => BranchCount(mergeStatus) = 1

\* C12: after a mergeability query the Merge action is offered exactly when
\* the query reported "Mergeable: yes" and the CI status is not FAILURE;
\* in the CI-failing and computing branches Merge is not offered and
\* re-check and close are.
C12_MergeOfferedIffReady ==
    /\ (lastOp = "checkMergeable" /\ lastIn.outcome = "ok" /\ lastIn.applied)
          => (MergeOffered <=> (lastIn.mergeable = "yes" /\ lastIn.ci # "FAILURE"))
    /\ MergeOffered
          => (mergeStatus.mergeable = "true" /\ mergeStatus.ciOverall # "FAILURE")
    /\ (MergeStepShown /\ (CIFailingBranch(mergeStatus) \/ ComputingBranch(mergeStatus)))
          => (~MergeOffered /\ RecheckOffered /\ CloseOffered)

\* "Mergeable: yes" with pending CI: Merge is offered.
C12_Witness ==
    /\ lastOp = "checkMergeable" /\ lastIn.outcome = "ok" /\ lastIn.applied
    /\ lastIn.mergeable = "yes" /\ lastIn.ci = "PENDING"
    /\ MergeOffered /\ ~loading

\* C13: after 'Fix and retry' the working-tree check decides: the step
\* does not go from check-tree to audit while the check is pending, and a
\* dirty tree keeps the step at check-tree.
C13_RetryHonoursCheckTree ==
    [][/\ (lastOp = "handleRetryAudit" /\ lastIn.verdict = "unsafe"
             /\ step = "check-tree") => step' # "audit"
       /\ (retryTimer /\ step = "check-tree" /\ error = "uncommitted")
            => step' = "check-tree"
      ]_vars

\* C14: after Retry at check-tree a new sandbox diff query is in flight.
C14_RetryCheckTreeQueries ==
    lastOp = "retryCheckTree"
        => (effect.pc = "getSandboxDiff" /\ ~effect.cancelled)

\* C15: after Retry at create-pr, when the PR search had failed, the PR
\* search is in flight again.
C15_RetryFindPRQueries ==
    (lastOp = "retryCreatePR" /\ lastIn.mode = "null")
        => (effect.pc = "findPR" /\ ~effect.cancelled)

\* C16: after Retry at the merge step, when the mergeability query had
\* failed (no facts stored), a new mergeability query is in flight.
C16_RetryMergeableQueries ==
    (lastOp = "handleRecheck" /\ ~lastIn.hadStatus)
        => (effect.pc = "checkMergeable" /\ ~effect.cancelled)

\* C17: Re-check from the CI-failing or computing branch clears the
\* mergeability facts and the error and starts a new mergeability query;
\* step, PR reference and audit verdict are unchanged and no other call
\* is started.
C17_RecheckFrame ==
    [][(lastOp' = "handleRecheck" /\ mergeStatus # NoStatus)
         => /\ UNCHANGED <<step, prInfo, prFormMode, auditVerdict, auditCard>>
            /\ mergeStatus' = NoStatus /\ error' = "null"
            /\ effect'.pc = "checkMergeable" /\ ~effect'.cancelled
            /\ ~StartsHandlerCall
      ]_vars

C17_Witness ==
    /\ lastOp = "handleRecheck" /\ lastIn.hadStatus
    /\ step = "merge" /\ auditVerdict = "safe" /\ prInfo # NoPR
    /\ mergeStatus = NoStatus /\ effect.pc = "checkMergeable"

\* C18: when executeDeleteBranch settles, resolved or rejected, the branch
\* becomes the default branch and the sheet is closed; the step is not
\* moved and no error is set.
C18_SwitchAndDeleteBestEffort ==
    [][lastOp' = "deleteBranch"
         => /\ currentBranch' = "default"
            /\ ~open'
            /\ ~deletingBranch'
            /\ UNCHANGED <<step, error>>
      ]_vars

\* The deletion failed: on the default branch, closed, still done, no error.
C18_Witness ==
    /\ lastOp = "deleteBranch" /\ lastIn.outcome = "throw"
    /\ currentBranch = "default" /\ ~open
    /\ step = "done" /\ error = "null"

\* C19: whenever the sheet goes from closed to open, the workflow is at
\* check-tree (past it only where no sandbox is attached) with no PR
\* reference, no verdict and no mergeability facts.
C19_ReopenStartsFresh ==
    [][(~open /\ open')
         => /\ step' = "check-tree" \/ (~sandboxId /\ step' = "create-pr")
            /\ prInfo' = NoPR
            /\ auditVerdict' = "null" /\ auditCard' = NoCard
            /\ mergeStatus' = NoStatus
      ]_vars

\* ---------------------------------------------------------------------------
\* C20: one runCoderAgent call issues at most MAX_CODER_ROUNDS (5) completion
\* calls; when every round's response carries a tool call and every tool
\* resolves, the call returns after the fifth round with the max-rounds
\* summary and rounds = 5, and no sixth completion call is ever issued.
\* ---------------------------------------------------------------------------
ReturnedAtCap ==
    /\ codPc = "returned"
    /\ dispatches = MAX_CODER_ROUNDS

CompletionFailed == codEvent = "onError"

C21_StreamErrorIsFatal ==
    /\ [](CompletionFailed =>
            /\ codPc = "threw"
            /\ codOut = [kind |-> "threw", why |-> "stream error"]
            /\ dispatches = completions - 1)
    /\ [][CompletionFailed => UNCHANGED <<completions, dispatches, codPc, codOut>>]_vars

C21_Witness ==
    /\ CompletionFailed
    /\ completions = 3
    /\ codPc = "threw"

\* ---------------------------------------------------------------------------
\* C22: a round of the Coder loop that lasts longer than the round time limit
\* is ended as a failure of that round: once the limit has passed the round is
\* no longer in flight, and no response or tool result that arrives after it
\* is taken as the round's outcome.
\* ---------------------------------------------------------------------------
RoundInFlight == codPc \in {"streaming", "executing"}

C22_RoundTimeout ==
    deadlinePassed => (~RoundInFlight /\ codPc = "threw")

\* ---------------------------------------------------------------------------
\* C23: a round's completion call starts only after the previous round's tool
\* result has been appended to the history (it is the last message the call
\* is handed), and a round dispatches at most one tool call: dispatches never
\* run ahead of the completion calls.
\* ---------------------------------------------------------------------------
LastMessage == messages[Len(messages)]

C23_RoundsInOrder ==
    /\ (codPc = "streaming" /\ round > 0) =>
          /\ messages # <<>>
          /\ LastMessage.id = "coder-tool-result"
          /\ LastMessage.round = round - 1
    /\ (codPc = "streaming" /\ round = 0) =>
          (Len(messages) = 1 /\ LastMessage.id = "coder-task")
    /\ codPc = "streaming" => dispatches = completions - 1
    /\ codPc = "executing" => dispatches = completions
    /\ dispatches <= completions
    /\ completions = 0 \/ dispatches >= completions - 1

C23_Witness ==
    /\ codPc = "streaming"
    /\ round = 2
    /\ dispatches = 2
    /\ LastMessage.id = "coder-tool-result"

\* ---------------------------------------------------------------------------
\* C24: when a round's response holds no tool call, the call returns in that
\* round with the response itself as summary, without dispatching a tool in
\* that round; after it has returned no completion call and no dispatch
\* follows.
\* ---------------------------------------------------------------------------
ResponseWithoutToolCall ==
    /\ codEvent = "onDone"
    /\ ~LastMessage.toolCall

C24_NoToolCallReturns ==
    /\ [](ResponseWithoutToolCall =>
            /\ codPc = "returned"
            /\ LastMessage.id = "coder-response"
            /\ LastMessage.round = round
            /\ codOut.summary = [form |-> "accumulated",
                                  last |-> LastMessage,
                                  len |-> LastMessage.content.len]
            /\ codOut.rounds = completions
            /\ dispatches = completions - 1)
    /\ [][codPc = "returned" => UNCHANGED <<completions, dispatches, codOut>>]_vars

C24_Witness ==
    /\ ResponseWithoutToolCall
    /\ codPc = "returned"
    /\ completions = 3
    /\ codOut.summary.len = 120

\* ---------------------------------------------------------------------------
\* C25: a tool result longer than MAX_TOOL_RESULT_SIZE is stored in the
\* history as the tool-result wrapper around its first MAX_TOOL_RESULT_SIZE
\* characters and the truncation marker: the stored length is the cap plus
\* the marker plus the 64 characters of the wrapper. A result within the cap
\* is stored whole inside the wrapper.
\* ---------------------------------------------------------------------------
\* "\n\n[tool result truncated — " n " chars omitted]"
MarkerLen(n) == 27 + Digits(n) + 15

ToolResultStored == codEvent = "toolResolved"

OversizedStored == ToolResultStored /\ codIn.len > MAX_TOOL_RESULT_SIZE

C25_TruncatedAndWrapped ==
    /\ ToolResultStored =>
          /\ LastMessage.id = "coder-tool-result"
          /\ LastMessage.isToolResult
    /\ OversizedStored =>
          /\ LastMessage.content.omitted = codIn.len - MAX_TOOL_RESULT_SIZE
          /\ LastMessage.content.len =
                49 + MAX_TOOL_RESULT_SIZE
                   + MarkerLen(codIn.len - MAX_TOOL_RESULT_SIZE) + 15
    /\ (ToolResultStored /\ ~OversizedStored) =>
          /\ LastMessage.content.omitted = 0
          /\ LastMessage.content.len = 49 + codIn.len + 15
    /\ \A i \in 1..Len(messages) :
          messages[i].isToolResult =>
              \/ /\ messages[i].content.omitted = 0
                 /\ messages[i].content.len <= 64 + MAX_TOOL_RESULT_SIZE
              \/ /\ messages[i].content.omitted > 0
                 /\ messages[i].content.len =
                       64 + MAX_TOOL_RESULT_SIZE
                          + MarkerLen(messages[i].content.omitted)

C25_Witness ==
    /\ OversizedStored
    /\ codIn.len = 8001
    /\ LastMessage.content.len = 8107

\* C25 as stated: the stored message of an oversized result is no longer than
\* the cap plus the marker.
C25_StoredWithinCapPlusMarker ==
    OversizedStored =>
        LastMessage.content.len
            <= MAX_TOOL_RESULT_SIZE + MarkerLen(LastMessage.content.omitted)

\* ---------------------------------------------------------------------------
\* C26: a tool result of 50,000 characters is cut to its first 8,000 and the
\* marker states what was cut off, 50,000 - 8,000 = 42000 characters.
\* ---------------------------------------------------------------------------
FiftyThousandStored == ToolResultStored /\ codIn.len = 50000

C26_MarkerStates42000 ==
    FiftyThousandStored =>
        /\ LastMessage.content.omitted = 42000
        /\ LastMessage.content.len - 64 - MarkerLen(42000) = 8000
        /\ MAX_TOOL_RESULT_SIZE = 8000

C26_Witness ==
    /\ FiftyThousandStored
    /\ LastMessage.content.omitted = 42000
    /\ LastMessage.content.len = 8111

\* C26 as stated: the marker states 41952 characters.
C26_MarkerStates41952 ==
    FiftyThousandStored => LastMessage.content.omitted = 41952

\* ---------------------------------------------------------------------------
\* C27: after the context-size check at the end of a round the retained
\* history holds at most MAX_TOTAL_CONTEXT_SIZE characters.
\* ---------------------------------------------------------------------------
C27_HistoryWithinBudget ==
    ToolResultStored => estimateMessagesSize(messages) <= MAX_TOTAL_CONTEXT_SIZE

\* ---------------------------------------------------------------------------
\* C28: context trimming takes whole pairs from the front of the history and
\* never splits one: every tool result still in the history directly follows
\* the response whose tool call it answers.
\* ---------------------------------------------------------------------------
PairedAt(i) ==
    /\ i > 1
    /\ messages[i - 1].id = "coder-response"
    /\ messages[i - 1].round = messages[i].round

C28_TrimsWholePairs ==
    \A i \in 1..Len(messages) : messages[i].isToolResult => PairedAt(i)

\* ---------------------------------------------------------------------------
\* C29: the context-size check leaves a history whose total size is at or
\* under MAX_TOTAL_CONTEXT_SIZE exactly as it is, and running the check on
\* its own result changes nothing (twice equals once). Checked on the history
\* the loop hands to the check (the history with the round's tool result
\* appended) and on every history the loop holds.
\* ---------------------------------------------------------------------------
UnderBudget(ms) == SumLen(ms) <= MAX_TOTAL_CONTEXT_SIZE

\* the history the check of the current round will be run on
HistoriesToCheck ==
    {messages} \cup
    (IF codPc = "executing"
     THEN {Append(messages, ToolResultMessage(round, Text(res.len))) :
               res \in ToolResults}
     ELSE {})

C29_CheckIdempotent ==
    \A ms \in HistoriesToCheck :
        /\ UnderBudget(ms) => TrimContext(ms) = ms
        /\ TrimContext(TrimContext(ms)) = TrimContext(ms)

C29_Witness ==
    /\ codPc = "executing"
    /\ Len(messages) = 10
    /\ \E ms \in HistoriesToCheck :
          /\ Len(ms) = 11 /\ UnderBudget(ms) /\ TrimContext(ms) = ms
    /\ \E ms \in HistoriesToCheck :
          /\ Len(ms) = 11 /\ ~UnderBudget(ms) /\ Len(TrimContext(ms)) = 9
          /\ ~UnderBudget(TrimContext(ms))

\* ---------------------------------------------------------------------------
\* C30: detectScratchpadToolCall returns at most one call: the call of the
\* first fenced block that is a valid scratchpad tool call when the text has
\* one, wherever it stands, and otherwise the first valid bare object of the
\* text; valid objects that follow the returned one change nothing.
\* ---------------------------------------------------------------------------
Detected == padPc = "detected"

\* positions of the valid calls of the text: alone in a fenced block, or bare
ValidFencedAt ==
    {i \in 1..Len(padText) :
        /\ isScratchpadTool(padText[i])
        /\ i > 1 /\ i < Len(padText)
        /\ padText[i - 1].k = "fence" /\ padText[i + 1].k = "fence"
        /\ Cardinality({j \in 1..(i - 1) : padText[j].k = "fence"}) % 2 = 1}

ValidBareAt ==
    {i \in 1..Len(padText) :
        /\ isScratchpadTool(padText[i])
        /\ \/ Cardinality({j \in 1..(i - 1) : padText[j].k = "fence"}) % 2 = 0
           \/ ~\E j \in (i + 1)..Len(padText) : padText[j].k = "fence"}

CallAt(i) == [tool |-> padText[i].tool.s, content |-> padText[i].content.s]

C30_FirstFencedElseFirstBare ==
    Detected =>
        /\ ValidFencedAt # {} => padOut = CallAt(Min(ValidFencedAt))
        /\ (ValidFencedAt = {} /\ ValidBareAt # {})
              => padOut = CallAt(Min(ValidBareAt))
        /\ (ValidFencedAt \cup ValidBareAt = {}) => padOut = NoScratchpadCall

C30_Witness ==
    /\ Detected
    /\ padText = <<SetA, PadFence, AppendB, PadFence>>
    /\ padOut = [tool |-> "append_scratchpad", content |-> "b"]

\* C30 as stated: the call returned is the first valid one of the text.
C30_FirstInText ==
    (Detected /\ ValidFencedAt \cup ValidBareAt # {})
        => padOut = CallAt(Min(ValidFencedAt \cup ValidBareAt))

\* ---------------------------------------------------------------------------
\* C31: a block that is not JSON, or an object whose tool is outside the
\* scratchpad vocabulary or whose content is not a string, gives neither a
\* call nor an error and does not end the scan: the result is always null or
\* the call of a valid block of the text, it is a call whenever the text has
\* a valid block, also behind rejected ones, and null when it has none.
\* ---------------------------------------------------------------------------
ValidAt == ValidFencedAt \cup ValidBareAt

RejectedAt ==
    {i \in 1..Len(padText) :
        padText[i].k # "fence" /\ ~isScratchpadTool(padText[i])}

C31_RejectedBlocksSkipped ==
    Detected =>
        /\ padOut \in {NoScratchpadCall} \cup {CallAt(i) : i \in ValidAt}
        /\ ValidAt # {} => padOut # NoScratchpadCall
        /\ ValidAt = {} => padOut = NoScratchpadCall

\* a rejected fenced block, then a valid fenced block
C31_Witness ==
    /\ Detected
    /\ padText = <<PadFence, PadMalformed, PadFence, PadFence, SetA, PadFence>>
    /\ padOut = [tool |-> "set_scratchpad", content |-> "a"]

\* ---------------------------------------------------------------------------
\* C32: safeStorageGet, safeStorageSet and safeStorageRemove never throw:
\* without a window, with a storage getter that throws, or with a storage
\* method that throws, get returns null and set / remove return false.
\* ---------------------------------------------------------------------------
StorageCalled == stOp.fn \in {"get", "set", "remove"}

C32_StorageNeverThrows ==
    /\ stOut # Threw
    /\ (StorageCalled /\ stOp.env # "ok") =>
          IF stOp.fn = "get" THEN stOut = StNull ELSE stOut = BoolVal(FALSE)
    /\ stOp.fn = "get" => stOut.t \in {"string", "null"}
    /\ stOp.fn \in {"set", "remove"} => stOut.t = "boolean"

C32_Witness ==
    /\ stOp.fn = "set"
    /\ stOp.env = "methodThrows"
    /\ stOut = BoolVal(FALSE)
    /\ store["local"]["k1"] = Str("a")

\* ---------------------------------------------------------------------------
\* C33: with a working storage, in each area: safeStorageSet(k, v) returns
\* true and the safeStorageGet(k) that follows it in that area returns v;
\* safeStorageRemove(k) returns true and the safeStorageGet(k) that follows
\* it returns null.
\* ---------------------------------------------------------------------------
Working(op) == op.env = "ok"

FollowingGet ==
    /\ stOp'.fn = "get" /\ Working(stOp')
    /\ stOp'.key = stOp.key /\ stOp'.area = stOp.area

C33_SetGetRemoveRoundTrip ==
    /\ []((stOp.fn \in {"set", "remove"} /\ Working(stOp))
             => stOut = BoolVal(TRUE))
    /\ [][/\ ((stOp.fn = "set" /\ Working(stOp) /\ FollowingGet)
                 => (stOut' = stOp.value))
           /\ ((stOp.fn = "remove" /\ Working(stOp) /\ FollowingGet)
                 => (stOut' = StNull))
         ]_vars

C33_Witness ==
    /\ stOp.fn = "get" /\ Working(stOp)
    /\ stOp.area = "session" /\ stOp.key = "k2"
    /\ stOut = Str("b")
    /\ store["local"]["k2"] = Str("a")

\* ---------------------------------------------------------------------------
\* C34: when the loop ends at the round cap, the text after 'Last response:'
\* in the summary is the content of the model's last response, the assistant
\* message of round 5.
\* ---------------------------------------------------------------------------
C34_LastResponseIsAssistant ==
    (codPc = "returned" /\ codOut.summary.form = "maxRounds") =>
        /\ codOut.summary.last.role = "assistant"
        /\ codOut.summary.last.id = "coder-response"
        /\ codOut.summary.last.round = MAX_CODER_ROUNDS - 1

\* ---------------------------------------------------------------------------
\* C35: the history handed to a completion call starts with the task message,
\* alternates user-role messages (the task, tool results) with assistant
\* messages and ends with a user-role message; trimming has not removed the
\* task message while a completion call is still to be made.
\* ---------------------------------------------------------------------------
HistoryHandedOver == codPc = "streaming"

C35_HistoryAlternates ==
    HistoryHandedOver =>
        /\ messages # <<>>
        /\ messages[1].id = "coder-task"
        /\ Len(messages) = 2 * round + 1
        /\ \A i \in 1..Len(messages) :
              messages[i].role = IF i % 2 = 1 THEN "user" ELSE "assistant"
        /\ LastMessage.role = "user"

\* the fifth call is handed an over-budget history that still has the task
C35_Witness ==
    /\ HistoryHandedOver
    /\ round = 4
    /\ ~UnderBudget(messages)
    /\ messages[1].id = "coder-task"

\* ---------------------------------------------------------------------------
\* C36: with no sandbox attached and the branch not the default branch,
\* check-tree advances to create-pr without issuing a working-tree query: no
\* getSandboxDiff call is ever in flight, the dirty-tree block ("uncommitted")
\* is never applied, and the open sheet never rests at check-tree.
C36_NoSandboxSkipsTreeQuery ==
    ~sandboxId
      => /\ effect.pc # "getSandboxDiff"
         /\ lastOp # "checkTree"
         /\ error # "uncommitted"
         /\ (open /\ currentBranch = "feature") => step # "check-tree"

\* The sheet is open on the feature branch without a sandbox and step 2 has
\* started right after check-tree.
C36_Witness ==
    /\ ~sandboxId /\ open /\ currentBranch = "feature"
    /\ step = "create-pr" /\ effect.pc = "findPR" /\ ~effect.cancelled
    /\ prInfo = NoPR

\* ---------------------------------------------------------------------------
\* C37: in every result of runAuditor (no key, stream error, invalid
\* response, decoded response) filesReviewed is the number of distinct target
\* paths on the 'diff --git' lines of the complete input diff, whatever the
\* model answered and whatever part of the diff was sent for review.
TargetPaths(diff) ==
    {p \in {"f1", "f2"} :
        \E i \in 1..Len(diff) : diff[i] = "diff --git a/" \o p \o " b/" \o p}

C37_FilesReviewedOfWholeDiff ==
    audPc = "returned"
      => audOut.card.filesReviewed = Cardinality(TargetPaths(audIn.diff))

\* A response was decoded for a diff whose second header lies beyond the
\* first 15,000 characters: two files reviewed, one header sent.
C37_Witness ==
    /\ audPc = "returned" /\ audIn.hasKey /\ ~audIn.streamError
    /\ audOut.card.summary = "sum"
    /\ audIn.request.partial > 0
    /\ Cardinality(TargetPaths(audIn.request.lines)) = 1
    /\ audOut.card.filesReviewed = 2

\* ---------------------------------------------------------------------------
\* C38: after any sequence of setGlobalDefault and setRepoOverride calls
\* (calls whose storage write fails and calls made with no repository name
\* included) the hook's isProtected equals getIsMainProtected(repo) as
\* computed from storage.
AfterSetter == pmPc = "mounted" /\ pmOp.fn \in {"setGlobalDefault", "setRepoOverride"}

C38_HookMatchesStorage ==
    AfterSetter => isProtected = getIsMainProtected(pmStore, pmRepo, "ok")

\* The same for hooks whose every call met a working storage and a
\* repository name.
C38_CleanHookMatchesStorage ==
    (AfterSetter /\ pmOp.clean)
      => isProtected = getIsMainProtected(pmStore, pmRepo, "ok")

\* ---------------------------------------------------------------------------
\* C39: for every current scratchpad content and appended text, the count
\* append_scratchpad reports ("now N chars") is the length of the content
\* once useScratchpad.append has applied the append.
AfterAppend == toolCall.call.tool = "append_scratchpad"

C39_ReportedLengthIsActual ==
    AfterAppend => toolOut = NoteLen(padContent)

\* The same for a current content without leading or trailing whitespace.
C39_TrimmedContentReportedRight ==
    (AfterAppend /\ toolCall.currentContent = NoteTrim(toolCall.currentContent))
      => toolOut = NoteLen(padContent)

====
